---- MODULE Spec2Model ----
(***************************************************************************)
(* Keystroke timing and error-injection engine of src/monkeytype.js.       *)
(*                                                                         *)
(* Units.  Times are integers in microseconds (1 ms = 1000).  Multipliers, *)
(* probabilities-as-levels and standard-normal draws are integers in       *)
(* thousandths (1.25 = 1250).  Products are floored after every            *)
(* multiplication (Mul), which is where the model departs from IEEE        *)
(* doubles: by less than one microsecond per step.                         *)
(*                                                                         *)
(* Characters are one-character strings, words are sequences of them.      *)
(* JavaScript null is NULL for characters and -1 for numbers.              *)
(***************************************************************************)
EXTENDS Integers, Sequences, FiniteSets, TLC

\* ------------------------------------------------------------------------
\*  Bounds of the model
\* ------------------------------------------------------------------------
\* engine calls (computeDelay / computeHold) in one run of SpecEngine
MaxCalls == 2
\* words typed in one run of SpecType
MaxWords == 1
\* errors fired (shouldMakeError returning true) in one run of SpecType
MaxErrors == 2
\* shouldOverlap() calls returning true in one run of SpecType
MaxOverlaps == 2
\* typing sessions in one run of SpecType
MaxSessions == 2
\* the clock of discord.js stops here, in ms
MaxTime == 30000
\* 300 ms timers of the observer pending at one time
MaxTimers == 2
\* QUESTS_SEND_HEARTBEAT_SUCCESS events short of the target during one wait
MaxEvents == 2

\* ------------------------------------------------------------------------
\*  CONFIG
\* ------------------------------------------------------------------------
REFERENCE_WPM == 110
\* 2 ms
MIN_SLEEP == 2000

NULL == "NULL"

\* ------------------------------------------------------------------------
\*  Fixed-point helpers
\* ------------------------------------------------------------------------
\* floor(a * m / 1000), computed so that a * m itself is never formed
\* (the intermediate values stay within 32 bits)
Mul(a, m) == (a \div 1000) * m + ((a % 1000) * m) \div 1000

\* floor(a * 1000 / b) for b > 0, by long division (a * 1000 is never formed)
Ratio(a, b) ==
    LET r0 == a % b
        r1 == (r0 * 10) % b
        r2 == (r1 * 10) % b
    IN (a \div b) * 1000 + ((r0 * 10) \div b) * 100 + ((r1 * 10) \div b) * 10
       + (r2 * 10) \div b

Max(a, b) == IF a >= b THEN a ELSE b
Min(a, b) == IF a <= b THEN a ELSE b

\* Math.random() is a level L in 0..999 (thousandths of [0,1)).
\* randUniform(a, b) = Math.random() * (b - a) + a
randUniform(a, b, L) == a + ((b - a) * L) \div 1000
\* randInt(a, b) = floor(Math.random() * (b - a + 1)) + a
randInt(a, b, L) == ((b - a + 1) * L) \div 1000 + a

\* randGauss(mu, sigma) = mu + sigma * Z, where Z is the Box-Muller factor
\* sqrt(-2 ln u1) cos(2 pi u2); Z is the draw, in thousandths.
randGauss(mu, sigma, Z) == mu + Mul(sigma, Z)

\* randExponential(lambda) = -ln(u) / lambda; E = -ln(u) is the draw (thousandths),
\* and the only caller passes lambda = 1 / tau.
randExponential(tau, E) == Mul(tau, E)

\* exGaussian(mu, sigma, tau)
exGaussian(mu, sigma, tau, Z, E) ==
    randGauss(mu, sigma, Z) + (IF tau > 0 THEN randExponential(tau, E) ELSE 0)

\* e^k in thousandths for whole k
ExpInt(k) ==
    CASE k <= -7 -> 1
      [] k = -6 -> 2
      [] k = -5 -> 7
      [] k = -4 -> 18
      [] k = -3 -> 50
      [] k = -2 -> 135
      [] k = -1 -> 368
      [] k = 0 -> 1000
      [] k = 1 -> 2718
      [] k = 2 -> 7389
      [] k = 3 -> 20086
      [] k = 4 -> 54598
      [] k = 5 -> 148413
      [] OTHER -> 403429

\* e^(f/1000) in thousandths for 0 <= f < 1000 (Taylor series, 6 terms)
ExpFrac(f) ==
    LET t1 == f
        t2 == (t1 * f) \div 2000
        t3 == (t2 * f) \div 3000
        t4 == (t3 * f) \div 4000
        t5 == (t4 * f) \div 5000
        t6 == (t5 * f) \div 6000
    IN 1000 + t1 + t2 + t3 + t4 + t5 + t6

\* Math.exp(x / 1000) in thousandths
Exp(x) == (ExpInt(x \div 1000) * ExpFrac(x % 1000)) \div 1000

\* ------------------------------------------------------------------------
\*  ANATOMICAL HAND MODEL CONSTANTS (restricted to the model's alphabet)
\* ------------------------------------------------------------------------
LowerSeq ==
    <<"a", "b", "c", "d", "e", "f", "g", "h", "i", "j", "k", "l", "m",
      "n", "o", "p", "q", "r", "s", "t", "u", "v", "w", "x", "y", "z">>

UpperSeq ==
    <<"A", "B", "C", "D", "E", "F", "G", "H", "I", "J", "K", "L", "M",
      "N", "O", "P", "Q", "R", "S", "T", "U", "V", "W", "X", "Y", "Z">>

Letters == { LowerSeq[n] : n \in 1..26 }

UpperLetters == { UpperSeq[n] : n \in 1..26 }

\* String.prototype.toLowerCase
toLowerCase(ch) ==
    IF ch \in UpperLetters THEN LowerSeq[CHOOSE n \in 1..26 : UpperSeq[n] = ch] ELSE ch

\* String.prototype.toUpperCase
toUpperCase(ch) ==
    IF ch \in Letters THEN UpperSeq[CHOOSE n \in 1..26 : LowerSeq[n] = ch] ELSE ch

Tbl(S, v) == [c \in S |-> v]

FINGER_MAP ==
    Tbl({"q", "a", "z", "1"}, 0) @@ Tbl({"w", "s", "x"}, 1) @@
    Tbl({"e", "d", "c"}, 2) @@ Tbl({"r", "f", "v", "t", "g", "b"}, 3) @@
    Tbl({"y", "h", "n", "u", "j", "m"}, 4) @@ Tbl({"i", "k"}, 5) @@
    Tbl({"o", "l"}, 6) @@ Tbl({"p", ";"}, 7) @@ Tbl({" "}, 8)

KEY_ROW ==
    Tbl({"1"}, 0) @@
    Tbl({"q", "w", "e", "r", "t", "y", "u", "i", "o", "p"}, 1) @@
    Tbl({"a", "s", "d", "f", "g", "h", "j", "k", "l", ";"}, 2) @@
    Tbl({"z", "x", "c", "v", "b", "n", "m"}, 3) @@ Tbl({" "}, 4)

FINGER_SPEED ==
    <<1350, 1150, 1000, 900, 900, 1000, 1150, 1350, 750>>

FINGER_HOLD ==
    <<1250, 1120, 1000, 880, 880, 1000, 1120, 1250, 800>>

\* FINGER_HOLD[finger] ** 0.3, in thousandths
FingerHoldPow03 ==
    <<1069, 1035, 1000, 962, 962, 1000, 1035, 1069, 935>>

getFinger(ch) ==
    IF toLowerCase(ch) \in DOMAIN FINGER_MAP THEN FINGER_MAP[toLowerCase(ch)] ELSE 5

getRow(ch) ==
    IF toLowerCase(ch) \in DOMAIN KEY_ROW THEN KEY_ROW[toLowerCase(ch)] ELSE 2

sameHand(f1, f2) ==
    IF f1 = 8 \/ f2 = 8 THEN FALSE
    ELSE (f1 <= 3 /\ f2 <= 3) \/ (f1 >= 4 /\ f2 >= 4)

\* Math.abs(r1 - r2)
rowDistance(r1, r2) == IF r1 >= r2 THEN r1 - r2 ELSE r2 - r1

\* bigrams are pairs <<first, second>> of lower-case characters
FAST_BIGRAMS ==
    {<<"t","h">>, <<"h","e">>, <<"i","n">>, <<"e","r">>, <<"a","n">>,
     <<"o","n">>, <<"e","n">>, <<"a","t">>, <<"o","u">>, <<"e","d">>,
     <<"i","s">>, <<"i","t">>, <<"a","l">>, <<"a","r">>, <<"o","r">>,
     <<"t","i">>, <<"t","e">>, <<"s","t">>, <<"s","e">>, <<"l","e">>,
     <<"n","g">>, <<"i","o">>, <<"r","e">>, <<"n","d">>, <<"h","a">>,
     <<"t","o">>, <<"o","f">>}

SLOW_BIGRAMS ==
    {<<"b","f">>, <<"z","x">>, <<"q","p">>, <<"p","q">>, <<"x","z">>,
     <<"f","b">>, <<"m","j">>, <<"j","m">>, <<"v","b">>, <<"b","v">>,
     <<"c","e">>, <<"e","c">>, <<"n","u">>, <<"u","n">>, <<"m","y">>,
     <<"y","m">>, <<"b","r">>, <<"r","b">>, <<"g","r">>, <<"r","g">>,
     <<"a","z">>, <<"z","a">>, <<"s","x">>, <<"x","s">>, <<"d","c">>,
     <<"c","d">>, <<"f","v">>, <<"v","f">>, <<"g","t">>, <<"t","g">>,
     <<"h","y">>, <<"y","h">>, <<"j","u">>, <<"u","j">>, <<"k","i">>,
     <<"i","k">>, <<"l","o">>, <<"o","l">>}

\* generateBigramSpeeds: one uniform draw per pair (the model uses one level
\* for every pair of a profile)
generateBigramSpeeds(L) ==
    [pair \in FAST_BIGRAMS \cup SLOW_BIGRAMS |->
        IF pair \in SLOW_BIGRAMS THEN randUniform(1250, 1800, L)
        ELSE randUniform(550, 800, L)]

fingerGroups ==
    << {"q", "a", "z"}, {"w", "s", "x"}, {"e", "d", "c"},
       {"r", "f", "v", "t", "g", "b"}, {"y", "h", "n", "u", "j", "m"},
       {"i", "k"}, {"o", "l"}, {"p", ";"} >>

SAME_FINGER_PAIRS ==
    UNION { { <<a, b>> : a \in fingerGroups[g], b \in fingerGroups[g] } \
            { <<a, a>> : a \in fingerGroups[g] } : g \in DOMAIN fingerGroups }

\* ------------------------------------------------------------------------
\*  Adjacent keys, motor chunks, letter frequency
\* ------------------------------------------------------------------------
ADJACENT_KEYS ==
    [c \in Letters |->
        CASE c = "a" -> <<"s","q","w","z">>
          [] c = "b" -> <<"v","g","h","n">>
          [] c = "c" -> <<"x","d","f","v">>
          [] c = "d" -> <<"s","e","r","f","c","x">>
          [] c = "e" -> <<"w","s","d","f","r">>
          [] c = "f" -> <<"d","e","r","t","g","c","v">>
          [] c = "g" -> <<"f","r","t","y","h","h","b","v">>
          [] c = "h" -> <<"g","t","y","j","n","b">>
          [] c = "i" -> <<"u","j","k","o">>
          [] c = "j" -> <<"h","y","u","k","n","m">>
          [] c = "k" -> <<"j","u","i","l","m">>
          [] c = "l" -> <<"k","o","p">>
          [] c = "m" -> <<"n","j","k">>
          [] c = "n" -> <<"b","h","j","m">>
          [] c = "o" -> <<"i","k","l","p">>
          [] c = "p" -> <<"o","l">>
          [] c = "q" -> <<"w","a">>
          [] c = "r" -> <<"e","d","f","t">>
          [] c = "s" -> <<"a","w","e","d","x","z">>
          [] c = "t" -> <<"r","f","g","y">>
          [] c = "u" -> <<"y","h","j","i">>
          [] c = "v" -> <<"c","f","g","b">>
          [] c = "w" -> <<"q","a","s","e">>
          [] c = "x" -> <<"z","s","d","c">>
          [] c = "y" -> <<"t","g","h","u">>
          [] OTHER -> <<"a","s","x">>]

\* the entries of MOTOR_CHUNKS that are words of the model
MOTOR_CHUNKS == { <<"t","h","e">>, <<"t","o">>, <<"a","l","l">> }

\* letter frequencies in thousandths of a percent point
LETTER_FREQ ==
    [c \in Letters |->
        CASE c = "e" -> 13000 [] c = "t" -> 9100 [] c = "a" -> 8200
          [] c = "o" -> 7500 [] c = "i" -> 7000 [] c = "n" -> 6700
          [] c = "s" -> 6300 [] c = "h" -> 6100 [] c = "r" -> 6000
          [] c = "d" -> 4300 [] c = "l" -> 4000 [] c = "c" -> 2800
          [] c = "u" -> 2800 [] c = "m" -> 2400 [] c = "w" -> 2400
          [] c = "f" -> 2200 [] c = "g" -> 2000 [] c = "y" -> 2000
          [] c = "p" -> 1900 [] c = "b" -> 1500 [] c = "v" -> 1000
          [] c = "k" -> 800  [] c = "j" -> 150  [] c = "x" -> 150
          [] c = "q" -> 100  [] OTHER -> 70]

\* word.toLowerCase()
lowerWord(word) == [n \in DOMAIN word |-> toLowerCase(word[n])]

RECURSIVE SumTo(_, _)
\* f[1] + ... + f[n]
SumTo(f, n) == IF n = 0 THEN 0 ELSE f[n] + SumTo(f, n - 1)

\* wordDifficulty(word), in thousandths
wordDifficulty(word) ==
    IF Len(word) = 0 THEN 0
    ELSE
      LET lower == lowerWord(word)
          lengthScore == Max(0, Len(word) - 3) * 80
          rarityOf == [n \in 1..Len(word) |->
              Max(0, 5000 - (IF lower[n] \in Letters THEN LETTER_FREQ[lower[n]] ELSE 500))]
          rarity == SumTo(rarityOf, Len(word)) \div 50
          sfOf == [n \in 1..(Len(word) - 1) |->
              IF <<lower[n], lower[n + 1]>> \in SAME_FINGER_PAIRS THEN 80 ELSE 0]
          bigramScore == SumTo(sfOf, Len(word) - 1)
      IN Min(2000, lengthScore + rarity + bigramScore)

\* ------------------------------------------------------------------------
\*  Trigonometry for the rhythm term
\* ------------------------------------------------------------------------
\* sin(k * 15 degrees) in thousandths, k = 0..6
SinQuarter == <<0, 259, 500, 707, 866, 966, 1000>>

\* sin(k * 15 degrees), any k >= 0
SinStep(k) ==
    LET m == k % 24
    IN IF m <= 6 THEN SinQuarter[m + 1]
       ELSE IF m <= 12 THEN SinQuarter[12 - m + 1]
       ELSE IF m <= 18 THEN -SinQuarter[m - 12 + 1]
       ELSE -SinQuarter[24 - m + 1]

\* Math.sin of t thousandths of a full turn (t >= 0), linear between the
\* 15-degree samples
Sin(t) ==
    LET pos == (t % 1000) * 24
        k == pos \div 1000
        frac == pos % 1000
    IN SinStep(k) + ((SinStep(k + 1) - SinStep(k)) * frac) \div 1000

\* ------------------------------------------------------------------------
\*  KOGASA CONSISTENCY
\* ------------------------------------------------------------------------
\* The mapper works on integers in units of 1e-8: a cov of 5 is 5 * FP, and
\* 1 - tanh(x) in these units is a consistency in millionths of a percent
\* (100 % = FP).  The operators below stay within 8 units of the IEEE values.
FP == 10000 * 10000

\* floor(a * b / FP) to within 3 units, without forming a * b
MulFP(a, b) ==
    (a \div 10000) * (b \div 10000)
    + ((a \div 10000) * (b % 10000)) \div 10000
    + ((a % 10000) * (b \div 10000)) \div 10000
    + ((a % 10000) * (b % 10000)) \div FP

RECURSIVE DivDigits(_, _, _)
\* the first n decimal digits of rem / b, for rem < b
DivDigits(rem, b, n) ==
    IF n = 0 THEN 0
    ELSE ((rem * 10) \div b) * (10 ^ (n - 1)) + DivDigits((rem * 10) % b, b, n - 1)

\* floor(a * FP / b)
DivFP(a, b) == (a \div b) * FP + DivDigits(a % b, b, 8)

\* cov + cov ** 3 / 3 + cov ** 5 / 5, from cov, cov ** 2 and cov ** 3
KogasaSum(cov, cov2, cov3) == cov + cov3 \div 3 + MulFP(cov3, cov2 \div 5)

KogasaCube(cov, cov2) == KogasaSum(cov, cov2, MulFP(cov2, cov))

KogasaArg(cov) == KogasaCube(cov, MulFP(cov, cov))

RECURSIVE ExpNegSeries(_, _)
\* exp(-r) for 0 <= r < 1: the Taylor series in Horner form, from term n on
ExpNegSeries(r, n) ==
    IF n > 12 THEN FP ELSE FP - MulFP(r \div n, ExpNegSeries(r, n + 1))

RECURSIVE ExpNegInt(_)
\* exp(-k) for a natural number k
ExpNegInt(k) == IF k = 0 THEN FP ELSE MulFP(36787944, ExpNegInt(k - 1))

\* exp(-x) for x >= 0
ExpNeg(x) == MulFP(ExpNegInt(x \div FP), ExpNegSeries(x % FP, 1))

\* 1 - tanh(x) = 2 exp(-2x) / (1 + exp(-2x)), from exp(-x)
OneMinusTanhFrom(ex) == DivFP(2 * MulFP(ex, ex), FP + MulFP(ex, ex))

\* kogasa(cov) for 0 <= cov <= 5.  From cov = 2.3 on the argument of tanh is
\* above 19.2, where Math.tanh returns exactly 1 and kogasa exactly 0.
kogasa(cov) ==
    IF cov >= 23 * (FP \div 10) THEN 0 ELSE OneMinusTanhFrom(ExpNeg(KogasaArg(cov)))

\* the number of passes of the loop of targetCovForConsistency
BISECTION_STEPS == 100

\* a pass of the loop that moves the wrong bound
BisectStepReversed(lo, hi, target) ==
    IF kogasa((lo + hi) \div 2) > target
    THEN << lo, (lo + hi) \div 2 >>
    ELSE << (lo + hi) \div 2, hi >>

\* a pass of the loop that moves lo past mid by the width of the interval
BisectStepOvershoots(lo, hi, target) ==
    IF kogasa((lo + hi) \div 2) > target
    THEN << (lo + hi) \div 2 + (hi - lo), hi >>
    ELSE << lo, (lo + hi) \div 2 >>

\* one pass of the loop: the new <<lo, hi>>
BisectStep(lo, hi, target) ==
    IF kogasa((lo + hi) \div 2) > target
    THEN << (lo + hi) \div 2, hi >>
    ELSE << lo, (lo + hi) \div 2 >>

RECURSIVE BisectFrom(_, _, _, _)
\* <<lo, hi>> after the passes from pass i on, b being <<lo, hi>> before pass
\* i and next after it; a pass that leaves <<lo, hi>> as it is does the same
\* in every later pass, and the remaining passes are then not unfolded
BisectFrom(b, next, target, i) ==
    IF i < BISECTION_STEPS /\ next # b
    THEN BisectFrom(next, BisectStep(next[1], next[2], target), target, i + 1)
    ELSE b

\* (lo + hi) / 2
Midpoint(b) == (b[1] + b[2]) \div 2

\* targetCovForConsistency(target)
targetCovForConsistency(target) ==
    Midpoint(BisectFrom(<< 0, 5 * FP >>, BisectStep(0, 5 * FP, target), target, 0))

\* ------------------------------------------------------------------------
\*  HUMAN PROFILE
\* ------------------------------------------------------------------------
ErrorTypes == <<"adjacent", "transpose", "confusion", "double_tap", "skip">>

\* 60000.0 / (targetWpm * 6), in microseconds
rawIki(targetWpm) == 60000000 \div (targetWpm * 6)

\* a correction that decreases with speed, from 1.24 to 1.04
correctionFactorFalling(targetWpm) ==
    Min(1250, 1240 - Mul(100, Min(2000, Ratio(targetWpm, REFERENCE_WPM))))

\* Math.min(1.25, correction), the factor that inflates rawIki
correctionFactor(targetWpm) ==
    Min(1250, 1040 + Mul(100, Min(2000, Ratio(targetWpm, REFERENCE_WPM))))

\* bands in which the highest also reaches up to 105 %
consistencyBandTooWide(targetWpm) ==
    IF targetWpm < 80 THEN <<50000, 65000>>
    ELSE IF targetWpm < 120 THEN <<60000, 75000>>
    ELSE IF targetWpm < 160 THEN <<68000, 82000>>
    ELSE <<72000, 105000>>

\* the bounds of randUniform for targetConsistency, in thousandths of a percent
consistencyBand(targetWpm) ==
    IF targetWpm < 80 THEN <<50000, 65000>>
    ELSE IF targetWpm < 120 THEN <<60000, 75000>>
    ELSE IF targetWpm < 160 THEN <<68000, 82000>>
    ELSE <<72000, 85000>>

\* an error factor that falls above 100 WPM
errorFactorFalling(targetWpm) ==
    IF targetWpm <= 100 THEN 800 + Mul(200, Ratio(targetWpm, 100))
    ELSE Max(200, 1000 - (targetWpm - 100))

\* errorFactor, which scales typoChance
errorFactor(targetWpm) == 800 + Mul(200, Min(1000, Ratio(targetWpm, 100)))

\* new HumanProfile(targetWpm); L is the level of the constructor's draws
HumanProfile(targetWpm, L) ==
    LET baseDelay == Mul(rawIki(targetWpm), correctionFactor(targetWpm))
        targetConsistency ==
            randUniform(consistencyBand(targetWpm)[1], consistencyBand(targetWpm)[2], L)
        holdMean == Mul(baseDelay, randUniform(400, 550, L))
        speedFactor == Max(500, Min(2000, Ratio(targetWpm, REFERENCE_WPM)))
    IN [ targetWpm |-> targetWpm,
         baseDelay |-> baseDelay,
         targetConsistency |-> targetConsistency,
         targetCov |-> targetCovForConsistency(targetConsistency * 1000),
         holdMean |-> holdMean,
         holdSigma |-> Mul(holdMean, randUniform(250, 400, L)),
         holdMin |-> 25000,
         holdMax |-> Mul(baseDelay, 1500),
         exgaussSigma |-> Mul(baseDelay, randUniform(80, 150, L)),
         exgaussTau |-> Mul(baseDelay, randUniform(50, 120, L)),
         typoChance |-> 18 * errorFactor(targetWpm),
         leaveMistakeChance |-> randUniform(80, 150, L),
         errorWeights |-> << 450, 150 + Mul(50, speedFactor), 150,
                             100 + Mul(20, speedFactor), 60 + Mul(20, speedFactor) >>,
         delayedNoticeChance |-> 300,
         delayedNoticeChars |-> <<1, 3>>,
         overBackspaceChance |-> 120,
         wordStartExtra |-> <<1050, 1250>>,
         spaceGapRange |-> <<750, 1300>>,
         thinkPauseChance |-> 40,
         thinkPauseRange |-> <<2000, 5000>>,
         warmupWords |-> randInt(2, 5, L),
         warmupSlowdown |-> randUniform(1100, 1300, L),
         fatigueMax |-> randUniform(1100, 1300, L),
         fatigueOnsetWords |-> randInt(40, 70, L),
         burstMaxLen |-> 4,
         burstSpeedup |-> randUniform(720, 850, L),
         chunkSpeedup |-> randUniform(620, 780, L),
         correctionReact |-> <<100000, 350000>>,
         backspaceDelay |-> <<30000, 90000>>,
         overlapChance |-> Min(400, Ratio(targetWpm, 500)),
         overlapTime |-> <<5000, 35000>>,
         ar1Phi |-> randUniform(100, 300, L),
         rhythmAmplitude |-> randUniform(20, 50, L),
         rhythmPeriod |-> randUniform(12000, 25000, L),
         flowAccel |-> randUniform(920, 970, L),
         flowDecel |-> randUniform(1020, 1080, L),
         difficultyPauseScale |-> randUniform(300, 800, L),
         bigramSpeeds |-> generateBigramSpeeds(L) ]

\* ------------------------------------------------------------------------
\*  KEYSTROKE DYNAMICS ENGINE
\* ------------------------------------------------------------------------
\* new KeystrokeDynamicsEngine(profile, totalWords)
NewEngine(totalWords) ==
    [ totalWords |-> IF totalWords = 0 THEN 100 ELSE totalWords,
      keySpacings |-> <<>>,
      keyDurations |-> <<>>,
      prevChar |-> NULL,
      prevFinger |-> -1,
      prevRow |-> -1,
      wordCount |-> 0,
      charInWord |-> 0,
      totalChars |-> 0,
      currentWordLen |-> 0,
      currentWord |-> <<>>,
      ar1Residual |-> 0,
      lastDelay |-> -1 ]

\* the draws of one computeDelay / computeHold call: L is the level of its
\* randUniform calls, Zw the Gaussian factor of the warm-up noise, Z and E the
\* Gaussian and exponential factors of the ex-Gaussian (resp. log-normal) sample
DrawOf(L, Zw, Z, E) == [L |-> L, Zw |-> Zw, Z |-> Z, E |-> E]

isSameKey(e, ch) ==
    e.prevChar # NULL /\ toLowerCase(e.prevChar) = toLowerCase(ch)

\* (this.prevChar + ch).toLowerCase(), or the empty string
bigramOf(e, ch) ==
    IF e.prevChar # NULL THEN <<toLowerCase(e.prevChar), toLowerCase(ch)>> ELSE <<>>

isSameFingerBigram(e, ch) == bigramOf(e, ch) \in SAME_FINGER_PAIRS

isSameFinger(e, ch) ==
    e.prevFinger # -1 /\ getFinger(ch) = e.prevFinger /\ getFinger(ch) # 8

isCrossHand(e, ch) ==
    e.prevFinger # -1 /\ ~sameHand(getFinger(ch), e.prevFinger)

isSameHand(e, ch) ==
    e.prevFinger # -1 /\ sameHand(getFinger(ch), e.prevFinger)

Adj(tag, mult) == [tag |-> tag, mult |-> mult]

\* a chain that lets the hand adjustment stack on a finger penalty
RelationAdjustmentsStacked(e, ch, L) ==
    (IF isSameKey(e, ch)
        THEN << Adj("same_key", Mul(randUniform(1250, 1450, L), FingerHoldPow03[getFinger(ch) + 1])) >>
     ELSE IF isSameFingerBigram(e, ch)
        THEN << Adj("same_finger_bigram", randUniform(1180, 1380, L)) >>
     ELSE IF isSameFinger(e, ch)
        THEN << Adj("same_finger", randUniform(1120, 1300, L)) >>
     ELSE << >>)
    \o
    (IF isCrossHand(e, ch)
        THEN << Adj("cross_hand", randUniform(850, 950, L)) >>
     ELSE IF isSameHand(e, ch)
        THEN << Adj("same_hand", randUniform(960, 1080, L)) >>
     ELSE << >>)

\* a chain that tests the generic same-finger case before the bigram set
RelationAdjustmentsGenericFirst(e, ch, L) ==
    IF isSameKey(e, ch)
        THEN << Adj("same_key", Mul(randUniform(1250, 1450, L), FingerHoldPow03[getFinger(ch) + 1])) >>
    ELSE IF isSameFinger(e, ch)
        THEN << Adj("same_finger", randUniform(1120, 1300, L)) >>
    ELSE IF isSameFingerBigram(e, ch)
        THEN << Adj("same_finger_bigram", randUniform(1180, 1380, L)) >>
    ELSE IF isCrossHand(e, ch)
        THEN << Adj("cross_hand", randUniform(850, 950, L)) >>
    ELSE IF isSameHand(e, ch)
        THEN << Adj("same_hand", randUniform(960, 1080, L)) >>
    ELSE << >>

\* computeDelay, "3-7. Finger/key relationship penalties": the adjustments
\* that multiply base, in the order applied
RelationAdjustments(e, ch, L) ==
    IF isSameKey(e, ch)
        THEN << Adj("same_key", Mul(randUniform(1250, 1450, L), FingerHoldPow03[getFinger(ch) + 1])) >>
    ELSE IF isSameFingerBigram(e, ch)
        THEN << Adj("same_finger_bigram", randUniform(1180, 1380, L)) >>
    ELSE IF isSameFinger(e, ch)
        THEN << Adj("same_finger", randUniform(1120, 1300, L)) >>
    ELSE IF isCrossHand(e, ch)
        THEN << Adj("cross_hand", randUniform(850, 950, L)) >>
    ELSE IF isSameHand(e, ch)
        THEN << Adj("same_hand", randUniform(960, 1080, L)) >>
    ELSE << >>

RECURSIVE ApplyAll(_, _)
\* base *= mult for every adjustment of the sequence
ApplyAll(base, adjs) ==
    IF adjs = << >> THEN base ELSE ApplyAll(Mul(base, Head(adjs).mult), Tail(adjs))

\* computeDelay, "Clamp: never exceed 2.0x base_delay"
ClampDelay(delay, p) == Max(MIN_SLEEP, Min(delay, Mul(p.baseDelay, 2000)))

\* Every step of computeDelay is "base *= m" under a condition; the operators
\* below give m, and 1000 (the factor 1.0) where the step does not apply.

\* "2. Row distance penalty"
RowDistanceMult(e, ch, d) ==
    LET dist == IF e.prevRow # -1 THEN rowDistance(e.prevRow, getRow(ch)) ELSE 0
    IN IF dist > 0 THEN 1000 + dist * randUniform(60, 140, d.L) ELSE 1000

\* "6a. Bigram-specific speed"
BigramMult(e, p, ch, d) ==
    IF e.prevChar # NULL /\ bigramOf(e, ch) \in DOMAIN p.bigramSpeeds
    THEN Mul(p.bigramSpeeds[bigramOf(e, ch)], randUniform(930, 1070, d.L))
    ELSE 1000

\* "8. Word start: cognitive pause + word difficulty", its two factors
WordStartMult(e, p, d) ==
    IF e.charInWord = 0
    THEN randUniform(p.wordStartExtra[1], p.wordStartExtra[2], d.L)
    ELSE 1000

DifficultyMult(e, p, d) ==
    IF e.charInWord = 0
    THEN 1000 + Mul(Mul(wordDifficulty(e.currentWord), p.difficultyPauseScale),
                    randUniform(300, 700, d.L))
    ELSE 1000

\* "9. Warm-up"
WarmupMult(e, p, d) ==
    IF e.wordCount < p.warmupWords
    THEN Max(1000, p.warmupSlowdown
                   - Mul(p.warmupSlowdown - 1000, Ratio(e.wordCount, p.warmupWords))
                   + randGauss(0, 80, d.Zw))
    ELSE 1000

\* "10. Fatigue"
FatigueMult(e, p) ==
    IF e.wordCount > p.fatigueOnsetWords
    THEN 1000 + Mul(p.fatigueMax - 1000,
                    Min(1000, Ratio(e.wordCount - p.fatigueOnsetWords, 60)))
    ELSE 1000

\* "11. Motor chunking"
ChunkMult(e, p) ==
    IF lowerWord(e.currentWord) \in MOTOR_CHUNKS /\ e.charInWord > 0 THEN p.chunkSpeedup
    ELSE IF e.currentWordLen <= p.burstMaxLen THEN p.burstSpeedup
    ELSE 1000

\* "12. Sigmoid speed curve": flowMult * endDecel at a given testProgress
FlowAt(p, testProgress) ==
    Mul(1000 - Mul(1000 - p.flowAccel, 1000000 \div (1000 + Exp(-12 * (testProgress - 250)))),
        1000 + Ratio(Mul(p.flowDecel - 1000, Max(0, testProgress - 850)), 150))

FlowMult(e, p) ==
    IF e.totalWords > 0 THEN FlowAt(p, Ratio(e.wordCount, Max(1, e.totalWords))) ELSE 1000

\* "13. Rhythmic periodicity"
RhythmMult(e, p) ==
    IF p.rhythmPeriod > 0
    THEN 1000 + Mul(p.rhythmAmplitude, Sin((e.totalChars * 1000000) \div p.rhythmPeriod))
    ELSE 1000

\* the base delay of computeDelay before sampling (steps 1 to 13)
DelayBase(e, p, ch, d) ==
    Mul(Mul(Mul(Mul(Mul(Mul(Mul(Mul(
        ApplyAll(Mul(Mul(p.baseDelay, FINGER_SPEED[getFinger(ch) + 1]),
                     RowDistanceMult(e, ch, d)),
                 RelationAdjustments(e, ch, d.L)),
        BigramMult(e, p, ch, d)),
        WordStartMult(e, p, d)),
        DifficultyMult(e, p, d)),
        WarmupMult(e, p, d)),
        FatigueMult(e, p)),
        ChunkMult(e, p)),
        FlowMult(e, p)),
        RhythmMult(e, p))

\* "14. Ex-Gaussian sampling"
DelaySample(base, p, d) ==
    exGaussian(base, Mul(base, Ratio(p.exgaussSigma, p.baseDelay)),
               Mul(base, Ratio(p.exgaussTau, p.baseDelay)), d.Z, d.E)

\* "15. AR(1) serial autocorrelation": the new residual
DelayResidual(e, p, base, d) ==
    Mul(e.ar1Residual, p.ar1Phi) + (DelaySample(base, p, d) - base)

\* "Record" and "Update state"
DelayRecorded(e, ch, residual, delay) ==
    [ e |-> [e EXCEPT !.ar1Residual = residual,
                      !.keySpacings = Append(@, delay),
                      !.lastDelay = delay,
                      !.prevChar = ch,
                      !.prevFinger = getFinger(ch),
                      !.prevRow = getRow(ch),
                      !.charInWord = @ + 1,
                      !.totalChars = @ + 1],
      value |-> delay ]

DelayClamped(e, p, ch, base, residual) ==
    DelayRecorded(e, ch, residual, ClampDelay(base + residual, p))

DelayFrom(e, p, ch, d, base) ==
    DelayClamped(e, p, ch, base, DelayResidual(e, p, base, d))

\* computeDelay(ch): the engine after the call and the value returned
computeDelay(e, p, ch, d) == DelayFrom(e, p, ch, d, DelayBase(e, p, ch, d))

\* computeHold: hold = Math.max(p.holdMin, Math.min(hold, p.holdMax))
ClampHold(hold, p) == Max(p.holdMin, Min(hold, p.holdMax))

\* "Home row bonus / number row penalty"
RowHoldMult(ch, d) ==
    IF getRow(ch) = 2 THEN randUniform(880, 970, d.L)
    ELSE IF getRow(ch) = 0 THEN randUniform(1050, 1200, d.L)
    ELSE 1000

\* "Correlate with spacing"
SpacingHoldMult(e, p) ==
    IF e.lastDelay # -1
    THEN 400 + Mul(600, Min(1500, Ratio(e.lastDelay, p.baseDelay)))
    ELSE 1000

\* randLogNormal(mu, s) = exp(mu + s Z); with mu = log(m) + c it is m * exp(c + s Z).
\* The sample for a key of base hold baseHold, ratio = holdSigma / baseHold
HoldSample(p, ch, d, baseHold, ratio) ==
    IF ch = " "
    THEN Mul(Mul(p.holdMean, 800),
             Exp(Mul(Max(50, Ratio(Mul(p.holdSigma, 500), baseHold)), d.Z)))
    ELSE Mul(Mul(baseHold, Exp(Mul(Max(50, ratio), d.Z) - Mul(ratio, ratio) \div 2)),
             RowHoldMult(ch, d))

HoldRecorded(e, hold) ==
    [ e |-> [e EXCEPT !.keyDurations = Append(@, hold)], value |-> hold ]

HoldFrom(e, p, ch, d, baseHold) ==
    HoldRecorded(e, ClampHold(Mul(HoldSample(p, ch, d, baseHold, Ratio(p.holdSigma, baseHold)),
                                  SpacingHoldMult(e, p)), p))

\* computeHold(ch): the engine after the call and the value returned
computeHold(e, p, ch, d) ==
    HoldFrom(e, p, ch, d, Mul(p.holdMean, FINGER_HOLD[getFinger(ch) + 1]))

\* wordBoundary()
wordBoundary(e) == [e EXCEPT !.charInWord = 0, !.wordCount = @ + 1]

\* setWordContext(word)
setWordContext(e, word) == [e EXCEPT !.currentWord = word, !.currentWordLen = Len(word)]

\* ------------------------------------------------------------------------
\*  COMMON TYPOS & CONFUSION PAIRS
\* ------------------------------------------------------------------------
\* the entries of COMMON_TYPOS for the words of the model
COMMON_TYPOS(lower) ==
    CASE lower = <<"t","h","e">> ->
            << <<"t","e","h">>, <<"h","t","e">>, <<"t","h">>, <<"t","j","e">>, <<"t","u","e">> >>
      [] lower = <<"t","h","e","i","r">> ->
            << <<"t","h","i","e","r">>, <<"t","e","h","i","r">>,
               <<"t","h","e","r","i">>, <<"t","h","e","r">> >>
      [] OTHER -> << >>

\* COMMON_TYPOS is an object literal, so COMMON_TYPOS[key] also finds what
\* Object.prototype holds under key; of those names only this one can be a
\* word in lower case.  COMMON_TYPOS["constructor"] is the function Object,
\* whose length is 1 and whose property 0 is undefined.
InheritedKeys == { <<"c","o","n","s","t","r","u","c","t","o","r">> }

\* the truth value of COMMON_TYPOS[word.toLowerCase()]
hasCommonTypos(word) ==
    COMMON_TYPOS(lowerWord(word)) # << >> \/ lowerWord(word) \in InheritedKeys

\* COMMON_TYPOS[word.toLowerCase()][randInt(0, length - 1)]
commonTypoLookup(word, L) ==
    IF lowerWord(word) \in InheritedKeys THEN "undefined"
    ELSE COMMON_TYPOS(lowerWord(word))[randInt(0, Len(COMMON_TYPOS(lowerWord(word))) - 1, L) + 1]

CONFUSION_PAIRS ==
    [c \in {"b","v","n","m","d","f","g","h","i","o","e","r","c","x"} |->
        CASE c = "b" -> "v" [] c = "v" -> "b" [] c = "n" -> "m" [] c = "m" -> "n"
          [] c = "d" -> "f" [] c = "f" -> "d" [] c = "g" -> "h" [] c = "h" -> "g"
          [] c = "i" -> "o" [] c = "o" -> "i" [] c = "e" -> "r" [] c = "r" -> "e"
          [] c = "c" -> "x" [] OTHER -> "c"]

\* ------------------------------------------------------------------------
\*  CHAR -> KeyboardEvent CODE MAPPING
\* ------------------------------------------------------------------------
\* ch in SHIFT_CHARS
needsShift(ch) == ch \in UpperLetters \/ ch = "!"

\* getEventCode(ch); the code "KeyT" is written <<"Key", "t">>
getEventCode(ch) ==
    IF ch = "!" \/ ch = "1" THEN <<"Digit", "1">>
    ELSE IF toLowerCase(ch) \in Letters THEN <<"Key", toLowerCase(ch)>>
    ELSE IF ch = " " THEN <<"Space">>
    ELSE IF ch = ";" THEN <<"Semicolon">>
    ELSE <<"NoCode">>

\* ------------------------------------------------------------------------
\*  ERROR ENGINE
\* ------------------------------------------------------------------------
\* shouldMakeError(ch, charIndex, word, wordIndex, prevChar); the chance is in
\* millionths and L is the level of Math.random()
errorChance(p, ch, charIndex, word, wordIndex, prevChar) ==
    Mul(Mul(Mul(Mul(Mul(Mul(p.typoChance,
        IF charIndex = 0 THEN 50
        ELSE IF charIndex <= 2 THEN 500
        ELSE IF charIndex <= 5 THEN 1500
        ELSE 1000),
        IF getFinger(ch) = 0 \/ getFinger(ch) = 7 THEN 1500 ELSE 1000),
        IF getRow(ch) = 0 THEN 1800 ELSE 1000),
        IF Len(word) > 6 /\ charIndex > 3 THEN 1200 ELSE 1000),
        IF wordIndex > 40 THEN 1000 + Min(300, Ratio(wordIndex - 40, 200)) ELSE 1000),
        IF prevChar # NULL /\ getFinger(prevChar) = getFinger(ch)
           /\ getFinger(prevChar) # 8 /\ getRow(prevChar) # getRow(ch)
        THEN 1600 ELSE 1000)

shouldMakeError(p, ch, charIndex, word, wordIndex, prevChar, L) ==
    L * 1000 < errorChance(p, ch, charIndex, word, wordIndex, prevChar)

\* the rate of whole-word typos, in thousandths
commonTypoRate(wpm) ==
    IF wpm <= 100 THEN 60 ELSE Max(10, 60 - (wpm - 100))

\* the weights in millionths: r = Math.random() * total is the product of
\* two values in thousandths
Millionths(vals) == [i \in DOMAIN vals |-> 1000 * vals[i]]

RECURSIVE pickWeighted(_, _, _)
\* the loop "r -= vals[i]; if (r <= 0) return types[i]" from index n on
pickWeighted(vals, r, n) ==
    IF n > Len(vals) THEN ErrorTypes[Len(ErrorTypes)]
    ELSE IF r - vals[n] <= 0 THEN ErrorTypes[n]
    ELSE pickWeighted(vals, r - vals[n], n + 1)

\* getErrorType(ch, charIndex, word); Lc and Lw are the levels of its two
\* Math.random() calls
\* a getErrorType whose draw is not multiplied by the total of the weights
getErrorTypeUnscaledDraw(p, charIndex, word, Lc, Lw) ==
    IF charIndex = 0 /\ hasCommonTypos(word) /\ Lc < commonTypoRate(p.targetWpm)
    THEN "common_typo"
    ELSE pickWeighted(Millionths(p.errorWeights), 1000 * Lw, 1)

getErrorType(p, charIndex, word, Lc, Lw) ==
    IF charIndex = 0 /\ hasCommonTypos(word) /\ Lc < commonTypoRate(p.targetWpm)
    THEN "common_typo"
    ELSE LET vals == p.errorWeights
             total == SumTo(vals, Len(vals))
         IN pickWeighted(Millionths(vals), total * Lw, 1)

isUpperCase(ch) == ch = toUpperCase(ch) /\ ch # toLowerCase(ch)

\* getAdjacentTypo(ch)
getAdjacentTypo(ch, L) ==
    IF toLowerCase(ch) \in Letters
    THEN LET neighbors == ADJACENT_KEYS[toLowerCase(ch)]
             wrong == neighbors[randInt(0, Len(neighbors) - 1, L) + 1]
         IN IF isUpperCase(ch) THEN toUpperCase(wrong) ELSE wrong
    ELSE LowerSeq[randInt(0, 25, L) + 1]

\* getConfusionTypo(ch)
getConfusionTypo(ch, L) ==
    IF toLowerCase(ch) \in DOMAIN CONFUSION_PAIRS
    THEN IF isUpperCase(ch) THEN toUpperCase(CONFUSION_PAIRS[toLowerCase(ch)])
         ELSE CONFUSION_PAIRS[toLowerCase(ch)]
    ELSE getAdjacentTypo(ch, L)

\* Math.random() > leaveMistakeChance
shouldCorrect(p, L) == L > p.leaveMistakeChance

shouldDelayNotice(p, L) == L < p.delayedNoticeChance

delayedCharsCount(p, L) == randInt(p.delayedNoticeChars[1], p.delayedNoticeChars[2], L)

shouldOverBackspace(p, L) == L < p.overBackspaceChance

shouldOverlap(p, L) == L < p.overlapChance

\* ------------------------------------------------------------------------
\*  KEYSTROKE DISPATCH
\* ------------------------------------------------------------------------
\* The text input and the dispatcher's bookkeeping, as one record x:
\*   e       the engine
\*   value   inputEl.value, a sequence of characters
\*   held    the keys of heldKeys
\*   out     what was emitted for the current word: characters and "BS"
\*   events  the keydown / keyup events dispatched, as <<type, code>>
ShiftLeft == <<"ShiftLeft">>

dispatchKeyDown(x, ch, withShift) ==
    LET pressShift == withShift /\ ShiftLeft \notin x.held
    IN [x EXCEPT
          !.events = @ \o (IF pressShift THEN << <<"keydown", ShiftLeft>> >> ELSE << >>)
                       \o << <<"keydown", getEventCode(ch)>> >>,
          !.held = @ \cup (IF pressShift THEN {ShiftLeft} ELSE {}) \cup {getEventCode(ch)}]

dispatchKeyUp(x, ch, withShift) ==
    LET heldAfter == x.held \ {getEventCode(ch)}
        releaseShift == withShift /\ ShiftLeft \in heldAfter
    IN [x EXCEPT
          !.events = @ \o << <<"keyup", getEventCode(ch)>> >>
                       \o (IF releaseShift THEN << <<"keyup", ShiftLeft>> >> ELSE << >>),
          !.held = IF releaseShift THEN heldAfter \ {ShiftLeft} ELSE heldAfter]

\* execCommand("insertText") with the cursor at the end
dispatchInput(x, ch) ==
    [x EXCEPT !.value = Append(@, ch), !.out = Append(@, ch)]

\* keydown, execCommand("delete") unless only the leading space is left, keyup
dispatchBackspace(x) ==
    [x EXCEPT
       !.events = @ \o << <<"keydown", <<"Backspace">> >>, <<"keyup", <<"Backspace">> >> >>,
       !.value = IF Len(@) > 1 THEN SubSeq(@, 1, Len(@) - 1) ELSE @,
       !.out = Append(@, "BS")]

typeChar(x, ch) ==
    dispatchKeyUp(dispatchInput(dispatchKeyDown(x, ch, needsShift(ch)), ch), ch, needsShift(ch))

typeCharWithOverlap(x, ch, prevCh) ==
    LET pressed == dispatchInput(dispatchKeyDown(x, ch, needsShift(ch)), ch)
    IN IF prevCh # NULL THEN dispatchKeyUp(pressed, prevCh, needsShift(prevCh)) ELSE pressed

RECURSIVE KeyUpsOf(_)
\* one keyup per held key other than Shift (in some order)
KeyUpsOf(codes) ==
    IF codes = {} THEN << >>
    ELSE LET c == CHOOSE c \in codes : TRUE
         IN << <<"keyup", c>> >> \o KeyUpsOf(codes \ {c})

releaseAllHeld(x) ==
    [x EXCEPT
       !.events = @ \o KeyUpsOf(x.held \ {ShiftLeft})
                    \o (IF ShiftLeft \in x.held THEN << <<"keyup", ShiftLeft>> >> ELSE << >>),
       !.held = {}]

typeBackspace(x) == dispatchBackspace(x)

\* ------------------------------------------------------------------------
\*  MAIN TYPING LOOP: the steps of one iteration of typeWordAdvanced
\* ------------------------------------------------------------------------
\* One iteration is a sequence of steps; a step with check = TRUE is preceded
\* by "if (stopRequested) return".
\*   key      computeDelay (when delay), computeHold, typeChar / typeCharWithOverlap
\*   bs       computeHold("a"), typeBackspace
\*   release  releaseAllHeld
\*   reset    engine.charInWord = 0
\* idx is the index of chars the character was read from, -1 if none.
Step(t, ch, idx, delay, check, overlapPrev) ==
    [t |-> t, ch |-> ch, idx |-> idx, delay |-> delay, check |-> check,
     overlapPrev |-> overlapPrev]

KeyStep(ch, idx, check) == Step("key", ch, idx, TRUE, check, "none")
HoldOnlyKeyStep(ch, idx) == Step("key", ch, idx, FALSE, FALSE, "none")
OverlapKeyStep(ch, idx, prevCh) == Step("key", ch, idx, TRUE, FALSE, prevCh)
BsStep(check) == Step("bs", "a", -1, FALSE, check, "none")
ReleaseStep == Step("release", "a", -1, FALSE, FALSE, "none")
ResetStep == Step("reset", "a", -1, FALSE, FALSE, "none")

\* chars[idx] in JavaScript: undefined outside the word
CharAt(chars, idx) ==
    IF idx >= 0 /\ idx < Len(chars) THEN chars[idx + 1] ELSE "undefined"

\* the draws of the engine calls made while typing
TypeDraw == DrawOf(500, 0, 0, 1000)

ExecStep(x, p, st) ==
    CASE st.t = "key" ->
            LET e1 == IF st.delay THEN computeDelay(x.e, p, st.ch, TypeDraw).e ELSE x.e
                e2 == computeHold(e1, p, st.ch, TypeDraw).e
                x2 == [x EXCEPT !.e = e2]
            IN IF st.overlapPrev = "none" THEN typeChar(x2, st.ch)
               ELSE typeCharWithOverlap(x2, st.ch, st.overlapPrev)
      [] st.t = "bs" ->
            typeBackspace([x EXCEPT !.e = computeHold(x.e, p, "a", TypeDraw).e])
      [] st.t = "release" -> releaseAllHeld(x)
      [] OTHER -> [x EXCEPT !.e.charInWord = 0]

RECURSIVE ExecSteps(_, _, _)
\* (the input always holds its leading space, so the second test never stops a run)
ExecSteps(x, p, steps) ==
    IF steps = << >> \/ Len(x.value) = 0 THEN x
    ELSE ExecSteps(ExecStep(x, p, Head(steps)), p, Tail(steps))

\* the indices of chars read by a sequence of steps
StepReads(steps) == { steps[n].idx : n \in { m \in DOMAIN steps : steps[m].t = "key" /\ steps[m].idx # -1 } }

ReleaseIfHolding(f) == IF f.holdingPrevKey THEN <<ReleaseStep>> ELSE << >>

\* the outcome of one iteration: its steps, the index after it and the locals
Outcome(kind, steps, reads, i1, f, holding, lastTyped, corrected, k, over) ==
    [ kind |-> kind, steps |-> steps, reads |-> reads \cup StepReads(steps), i1 |-> i1,
      holdingPrevKey |-> holding, lastTypedChar |-> lastTyped,
      corrected |-> corrected, extraTyped |-> k, overBackspace |-> over ]

\* the levels of the Math.random() calls of one iteration
\*   correct, notice, count, over   shouldCorrect, shouldDelayNotice,
\*                                  delayedCharsCount, shouldOverBackspace
\*   pick                           randInt of the typo / neighbour choice
\*   ov1, ov2                       the two shouldOverlap calls
Levels(correct, notice, count, over, pick, ov1, ov2) ==
    [correct |-> correct, notice |-> notice, count |-> count, over |-> over,
     pick |-> pick, ov1 |-> ov1, ov2 |-> ov2]

\* errorType === "common_typo" && i === 0
CommonTypoPlan(f, p, R) ==
    LET chars == f.chars
        typoWord == commonTypoLookup(chars, R.pick)
        typing == [n \in 1..Len(typoWord) |-> KeyStep(typoWord[n], -1, TRUE)]
        corrected == shouldCorrect(p, R.correct)
        over == corrected /\ shouldOverBackspace(p, R.over)
        bsCount == Len(typoWord) + (IF over THEN 1 ELSE 0)
        retype == [n \in 1..Len(chars) |-> KeyStep(chars[n], n - 1, TRUE)]
        steps == ReleaseIfHolding(f) \o typing
                 \o (IF corrected
                     THEN [n \in 1..bsCount |-> BsStep(TRUE)] \o <<ResetStep>> \o retype
                     ELSE << >>)
    IN Outcome("common_typo", steps, {f.i}, Len(chars), f, FALSE, f.lastTypedChar,
               corrected, 0, over)

\* a transpose branch that deletes one character fewer than it typed
TransposePlanOneBackspaceShort(f, p, R) ==
    LET chars == f.chars
        i == f.i
        swapped == << KeyStep(CharAt(chars, i + 1), i + 1, FALSE),
                      KeyStep(CharAt(chars, i), i, FALSE) >>
        corrected == shouldCorrect(p, R.correct)
        over == corrected /\ shouldOverBackspace(p, R.over)
        totalBs == 1 + (IF over THEN 1 ELSE 0)
        steps == ReleaseIfHolding(f) \o swapped
                 \o (IF corrected
                     THEN [n \in 1..totalBs |-> BsStep(TRUE)]
                          \o << KeyStep(CharAt(chars, i), i, TRUE),
                                KeyStep(CharAt(chars, i + 1), i + 1, TRUE) >>
                     ELSE << >>)
    IN Outcome("transpose", steps, {i}, i + 2, f, FALSE, f.lastTypedChar, corrected, 0, over)

\* a transpose branch whose delayed-detection count is not capped by the
\* characters left in the word
TransposePlanUncappedExtra(f, p, R) ==
    LET chars == f.chars
        i == f.i
        swapped == << KeyStep(CharAt(chars, i + 1), i + 1, FALSE),
                      KeyStep(CharAt(chars, i), i, FALSE) >>
        corrected == shouldCorrect(p, R.correct)
        nExtra == IF corrected /\ shouldDelayNotice(p, R.notice) /\ i + 2 < Len(chars)
                  THEN delayedCharsCount(p, R.count)
                  ELSE 0
        extra == [k \in 1..nExtra |-> KeyStep(CharAt(chars, i + 2 + k - 1), i + 2 + k - 1, TRUE)]
        over == corrected /\ shouldOverBackspace(p, R.over)
        totalBs == 2 + nExtra + (IF over THEN 1 ELSE 0)
        start == IF totalBs > 2 + nExtra THEN Max(0, i - 1) ELSE i
        retype == SelectSeq([n \in 1..(i + 2 + nExtra - start) |-> start + n - 1],
                            LAMBDA ci : ci < Len(chars))
        steps == ReleaseIfHolding(f) \o swapped
                 \o (IF corrected
                     THEN extra \o [n \in 1..totalBs |-> BsStep(TRUE)]
                          \o [n \in DOMAIN retype |-> KeyStep(CharAt(chars, retype[n]), retype[n], TRUE)]
                     ELSE << >>)
    IN Outcome("transpose", steps, {i}, IF corrected THEN i + 2 + nExtra ELSE i + 2,
               f, FALSE, f.lastTypedChar, corrected, nExtra, over)

\* errorType === "transpose" && i < chars.length - 1
TransposePlan(f, p, R) ==
    LET chars == f.chars
        i == f.i
        swapped == << KeyStep(CharAt(chars, i + 1), i + 1, FALSE),
                      KeyStep(CharAt(chars, i), i, FALSE) >>
        corrected == shouldCorrect(p, R.correct)
        nExtra == IF corrected /\ shouldDelayNotice(p, R.notice) /\ i + 2 < Len(chars)
                  THEN Min(delayedCharsCount(p, R.count), Len(chars) - i - 2)
                  ELSE 0
        extra == [k \in 1..nExtra |-> KeyStep(CharAt(chars, i + 2 + k - 1), i + 2 + k - 1, TRUE)]
        extraTyped == nExtra
        over == corrected /\ shouldOverBackspace(p, R.over)
        totalBs == 2 + extraTyped + (IF over THEN 1 ELSE 0)
        start == IF totalBs > 2 + extraTyped THEN Max(0, i - 1) ELSE i
        retype == SelectSeq([n \in 1..(i + 2 + extraTyped - start) |-> start + n - 1],
                            LAMBDA ci : ci < Len(chars))
        steps == ReleaseIfHolding(f) \o swapped
                 \o (IF corrected
                     THEN extra \o [n \in 1..totalBs |-> BsStep(TRUE)]
                          \o [n \in DOMAIN retype |-> KeyStep(CharAt(chars, retype[n]), retype[n], TRUE)]
                     ELSE << >>)
    IN Outcome("transpose", steps, {i}, IF corrected THEN i + 2 + extraTyped ELSE i + 2,
               f, FALSE, f.lastTypedChar, corrected, extraTyped, over)

\* an adjacent branch whose retype leaves out the character the error replaced
AdjacentPlanRetypeFromNext(f, p, R) ==
    LET chars == f.chars
        i == f.i
        wrong == getAdjacentTypo(CharAt(chars, i), R.pick)
        corrected == shouldCorrect(p, R.correct)
        nExtra == IF corrected /\ shouldDelayNotice(p, R.notice) /\ i + 1 < Len(chars)
                  THEN Min(delayedCharsCount(p, R.count), Len(chars) - i - 1)
                  ELSE 0
        extra == [k \in 1..nExtra |-> KeyStep(CharAt(chars, i + 1 + k - 1), i + 1 + k - 1, TRUE)]
        over == corrected /\ shouldOverBackspace(p, R.over)
        totalBs == 1 + nExtra + (IF over THEN 1 ELSE 0)
        start == IF totalBs > 1 + nExtra THEN i ELSE i + 1
        retype == SelectSeq([n \in 1..(i + 1 + nExtra - start) |-> start + n - 1],
                            LAMBDA ci : ci < Len(chars))
        steps == ReleaseIfHolding(f) \o << KeyStep(wrong, -1, FALSE) >>
                 \o (IF corrected
                     THEN extra \o [n \in 1..totalBs |-> BsStep(TRUE)]
                          \o [n \in DOMAIN retype |-> KeyStep(CharAt(chars, retype[n]), retype[n], TRUE)]
                     ELSE << >>)
    IN Outcome("adjacent", steps, {i}, IF corrected THEN i + 1 + nExtra ELSE i + 1,
               f, FALSE, f.lastTypedChar, corrected, nExtra, over)

\* errorType === "adjacent"
AdjacentPlan(f, p, R) ==
    LET chars == f.chars
        i == f.i
        wrong == getAdjacentTypo(CharAt(chars, i), R.pick)
        corrected == shouldCorrect(p, R.correct)
        nExtra == IF corrected /\ shouldDelayNotice(p, R.notice) /\ i + 1 < Len(chars)
                  THEN Min(delayedCharsCount(p, R.count), Len(chars) - i - 1)
                  ELSE 0
        extra == [k \in 1..nExtra |-> KeyStep(CharAt(chars, i + 1 + k - 1), i + 1 + k - 1, TRUE)]
        extraTyped == nExtra
        over == corrected /\ shouldOverBackspace(p, R.over)
        totalBs == 1 + extraTyped + (IF over THEN 1 ELSE 0)
        start == IF totalBs > 1 + extraTyped THEN Max(0, i - 1) ELSE i
        retype == SelectSeq([n \in 1..(i + 1 + extraTyped - start) |-> start + n - 1],
                            LAMBDA ci : ci < Len(chars))
        steps == ReleaseIfHolding(f) \o << KeyStep(wrong, -1, FALSE) >>
                 \o (IF corrected
                     THEN extra \o [n \in 1..totalBs |-> BsStep(TRUE)]
                          \o [n \in DOMAIN retype |-> KeyStep(CharAt(chars, retype[n]), retype[n], TRUE)]
                     ELSE << >>)
    IN Outcome("adjacent", steps, {i}, IF corrected THEN i + 1 + extraTyped ELSE i + 1,
               f, FALSE, f.lastTypedChar, corrected, extraTyped, over)

\* a confusion branch that follows the delayed-detection protocol of adjacent
ConfusionPlanDelayed(f, p, R) ==
    LET ch == CharAt(f.chars, f.i)
        wrong == getConfusionTypo(ch, R.pick)
        corrected == shouldCorrect(p, R.correct)
        steps == ReleaseIfHolding(f) \o << KeyStep(wrong, -1, FALSE) >>
                 \o (IF corrected
                     THEN << KeyStep(ch, f.i, FALSE), BsStep(FALSE), BsStep(FALSE),
                             HoldOnlyKeyStep(ch, f.i) >>
                     ELSE << >>)
    IN Outcome("confusion", steps, {f.i}, f.i + 1, f, FALSE, f.lastTypedChar,
               corrected, 0, FALSE)

\* errorType === "confusion"
ConfusionPlan(f, p, R) ==
    LET ch == CharAt(f.chars, f.i)
        wrong == getConfusionTypo(ch, R.pick)
        corrected == shouldCorrect(p, R.correct)
        steps == ReleaseIfHolding(f) \o << KeyStep(wrong, -1, FALSE) >>
                 \o (IF corrected THEN << BsStep(FALSE), HoldOnlyKeyStep(ch, f.i) >> ELSE << >>)
    IN Outcome("confusion", steps, {f.i}, f.i + 1, f, FALSE, f.lastTypedChar,
               corrected, 0, FALSE)

\* a double_tap branch whose correction may delete one character too many
DoubleTapPlanOverBackspace(f, p, R) ==
    LET ch == CharAt(f.chars, f.i)
        corrected == shouldCorrect(p, R.correct)
        steps == ReleaseIfHolding(f) \o << KeyStep(ch, f.i, FALSE), HoldOnlyKeyStep(ch, f.i) >>
                 \o (IF corrected THEN << BsStep(FALSE), BsStep(FALSE) >> ELSE << >>)
    IN Outcome("double_tap", steps, {f.i}, f.i + 1, f, FALSE, f.lastTypedChar,
               corrected, 0, FALSE)

\* errorType === "double_tap"
DoubleTapPlan(f, p, R) ==
    LET ch == CharAt(f.chars, f.i)
        corrected == shouldCorrect(p, R.correct)
        steps == ReleaseIfHolding(f) \o << KeyStep(ch, f.i, FALSE), HoldOnlyKeyStep(ch, f.i) >>
                 \o (IF corrected THEN << BsStep(FALSE) >> ELSE << >>)
    IN Outcome("double_tap", steps, {f.i}, f.i + 1, f, FALSE, f.lastTypedChar,
               corrected, 0, FALSE)

\* a normal keystroke that presses the key without a computeDelay call
NormalPlanNoDelay(f, p, R) ==
    LET ch == CharAt(f.chars, f.i)
    IN Outcome("normal", ReleaseIfHolding(f) \o << HoldOnlyKeyStep(ch, f.i) >>, {f.i}, f.i + 1,
               f, shouldOverlap(p, R.ov2), ch, FALSE, 0, FALSE)

\* a normal keystroke that leaves the index where it is
NormalPlanStays(f, p, R) ==
    LET ch == CharAt(f.chars, f.i)
    IN Outcome("normal", ReleaseIfHolding(f) \o << KeyStep(ch, f.i, FALSE) >>, {f.i}, f.i,
               f, shouldOverlap(p, R.ov2), ch, FALSE, 0, FALSE)

\* "--- Normal keystroke ---", also reached when the error type drawn is not enacted
NormalPlan(f, p, R) ==
    LET ch == CharAt(f.chars, f.i)
        overlap == shouldOverlap(p, R.ov1) /\ f.i > 0 /\ f.holdingPrevKey
    IN IF overlap
       THEN Outcome("normal", << OverlapKeyStep(ch, f.i, f.lastTypedChar) >>, {f.i}, f.i + 1,
                    f, TRUE, ch, FALSE, 0, FALSE)
       ELSE Outcome("normal", ReleaseIfHolding(f) \o << KeyStep(ch, f.i, FALSE) >>, {f.i}, f.i + 1,
                    f, shouldOverlap(p, R.ov2), ch, FALSE, 0, FALSE)

\* ------------------------------------------------------------------------
\*  State
\* ------------------------------------------------------------------------
VARIABLES
    profile,        \* the session's HumanProfile
    engine,         \* the session's KeystrokeDynamicsEngine
    last,           \* observation of the most recent direct engine call
    ncalls,         \* direct engine calls made so far
    pc,             \* where the session driver is
    f,              \* the locals of runTypingSession and typeWordAdvanced
    dom,            \* the text input: its value and the keys held down
    out,            \* characters and backspaces emitted for the current word
    iter,           \* observation of the last iteration of the typing loop
    stopRequested,  \* the flag F6 raises
    nerrors,        \* errors fired so far in the run
    TARGET_WPM,     \* the script's target speed, which F7 sets
    \* discord.js
    quests,         \* the quests not yet taken
    isApp,          \* typeof DiscordNative !== "undefined"
    qpc,            \* where processQuests is
    q,              \* the locals of processQuests for the quest in hand
    stores,         \* the three store functions the script patches
    api,            \* the apiWithRetry call in progress, or the last one
    now,            \* Date.now(), in ms since the script was pasted
    sent,           \* the last video-progress POST and when it was sent
    qlog,           \* what processQuests did, quest by quest
    subs,           \* the quests whose QUESTS_SEND_HEARTBEAT_SUCCESS handler is subscribed
    \* the controller of monkeytype.js
    ctl             \* enabled, running, the test page, the timers and the sessions

\* the state of discord.js
questVars == <<quests, isApp, qpc, q, stores, api, now, sent, qlog, subs>>

\* the state of the page outside the typing session
pageVars == <<questVars, ctl>>

typeVars == <<pc, f, dom, out, iter, stopRequested, nerrors, TARGET_WPM, pageVars>>

\* the state of monkeytype.js
botVars == <<profile, engine, last, ncalls, pc, f, dom, out, iter, stopRequested, nerrors, TARGET_WPM>>

vars == <<botVars, pageVars>>

\* ------------------------------------------------------------------------
\*  DISCORD QUEST COMPLETER (discord.js)
\* ------------------------------------------------------------------------
\* apiWithRetry(method, options, maxRetries = 3)
maxRetries == 3

\* the constants of the video branch
maxFuture == 10
speed == 7
interval == 1

\* a backoff that grows by one second per attempt
backoffLinear(attempt) == Min(1000 * (attempt + 1), 10000)

\* Math.min(1000 * 2 ** attempt, 10000)
backoff(attempt) == Min(1000 * 2^attempt, 10000)

VideoTasks == {"WATCH_VIDEO", "WATCH_VIDEO_ON_MOBILE"}

\* a quest of QuestsStore: its id, its task, the task's target and the
\* progress made (seconds), and userStatus.enrolledAt (ms on the clock now)
Quest(id, task, target, value, enrolledAt) ==
    [id |-> id, task |-> task, target |-> target, value |-> value, enrolledAt |-> enrolledAt]

NoQuest == Quest(0, "none", 0, 0, 0)

\* the uncompleted quests an account can hold
QuestPool ==
    { Quest(1, "WATCH_VIDEO", 20, 0, 0),
      Quest(2, "WATCH_VIDEO_ON_MOBILE", 15, 10, -2000),
      Quest(3, "PLAY_ON_DESKTOP", 900, 0, -5000),
      Quest(4, "STREAM_ON_DESKTOP", 900, 60, -5000),
      Quest(5, "PLAY_ACTIVITY", 900, 0, -5000),
      Quest(6, "WATCH_VIDEO", 30, 14, -60000) }

\* the store functions before the script touches them
RealFn == [fn |-> "real", quest |-> 0]

\* a function the script puts in a store for the quest id
FakeFn(id) == [fn |-> "fake", quest |-> id]

\* a local not assigned yet
Unassigned == [fn |-> "undefined", quest |-> 0]

RealStores ==
    [ getRunningGames |-> RealFn, getGameForPID |-> RealFn,
      getStreamerActiveStreamMetadata |-> RealFn ]

\* the locals of processQuests once it has taken a quest; beats is what the
\* PLAY_ACTIVITY loop has done for it: "heartbeat" and "terminal" for the two
\* POSTs, "reached" and "short" for the progress in a response, "sleep";
\* heard counts the events its handler got with progress < secondsNeeded,
\* posts the POSTs of the video loop that returned a response
Taken(quest) ==
    [ quest |-> quest, secondsDone |-> quest.value, completed |-> FALSE, touched |-> FALSE,
      realGetRunningGames |-> Unassigned, realGetGameForPID |-> Unassigned,
      realFunc |-> Unassigned, beats |-> << >>, heard |-> 0, posts |-> 0 ]

\* what a call of apiWithRetry came to: the result or the error of api[method],
\* told apart by the attempt that produced it, or undefined
NoOutcome == [kind |-> "none", attempt |-> 0]

NoApi ==
    [state |-> "idle", site |-> "none", body |-> 0, attempt |-> 0, calls |-> 0, waits |-> << >>,
     outcome |-> NoOutcome]

\* apiWithRetry entered: attempt = 0, no call made yet
apiWithRetry(site, body) ==
    [state |-> "call", site |-> site, body |-> body, attempt |-> 0, calls |-> 0, waits |-> << >>,
     outcome |-> NoOutcome]

NoSent == [site |-> "none", timestamp |-> 0, at |-> 0, enrolledAt |-> 0]

\* the script not pasted into the console
QuestsIdle ==
    /\ quests = << >>
    /\ isApp = FALSE
    /\ qpc = "off"
    /\ q = Taken(NoQuest)
    /\ stores = RealStores
    /\ api = NoApi
    /\ now = 0
    /\ sent = NoSent
    /\ qlog = << >>
    /\ subs = {}

\* the first API call or patch made for the quest in hand
FirstTouch == IF q.touched THEN << >> ELSE << <<"first", q.quest.id>> >>

\* an end of quest without the catch block: an error leaves processQuests
EndQuestUncaught(how, patched, events) ==
    /\ qpc' = IF how = "error" THEN "done" ELSE "loop"
    /\ qlog' = qlog \o events \o << <<"end", q.quest.id, how, patched>> >>

\* the end of the handling of the quest in hand: by completion, by "continue"
\* or in the catch block; patched tells whether the stores had been patched
EndQuest(how, patched, events) ==
    /\ qpc' = "loop"
    /\ qlog' = qlog \o events \o << <<"end", q.quest.id, how, patched>> >>

\* a PLAY_ON_DESKTOP patch that forgets getGameForPID when it restores
PlayFinallyKeepsFakeLookup(st, saved) ==
    [st EXCEPT !.getRunningGames = saved.realGetRunningGames]

\* the assignments of the PLAY_ON_DESKTOP try and finally blocks
PlayPatch(st, id) ==
    [st EXCEPT !.getRunningGames = FakeFn(id), !.getGameForPID = FakeFn(id)]

PlayFinally(st, saved) ==
    [st EXCEPT !.getRunningGames = saved.realGetRunningGames,
               !.getGameForPID = saved.realGetGameForPID]

\* the assignments of the STREAM_ON_DESKTOP try and finally blocks
StreamPatch(st, id) == [st EXCEPT !.getStreamerActiveStreamMetadata = FakeFn(id)]

StreamFinally(st, saved) == [st EXCEPT !.getStreamerActiveStreamMetadata = saved.realFunc]

\* a pass that reads the last quest of the list and leaves it there
TakeQuestLeavesIt ==
    /\ qpc = "loop"
    /\ quests # << >>
    /\ q' = Taken(quests[Len(quests)])
    /\ qpc' = CASE quests[Len(quests)].task \in VideoTasks -> "video"
                [] quests[Len(quests)].task = "PLAY_ON_DESKTOP" -> "play"
                [] quests[Len(quests)].task = "STREAM_ON_DESKTOP" -> "stream"
                [] OTHER -> "activity"
    /\ qlog' = Append(qlog, <<"take", quests[Len(quests)].id>>)
    /\ UNCHANGED <<quests, isApp, stores, api, now, sent, botVars, ctl, subs>>

\* one pass of "while (quests.length > 0)" up to the task branches
TakeQuest ==
    /\ qpc = "loop"
    /\ quests # << >>
    /\ quests' = SubSeq(quests, 1, Len(quests) - 1)
    /\ q' = Taken(quests[Len(quests)])
    /\ qpc' = CASE quests[Len(quests)].task \in VideoTasks -> "video"
                [] quests[Len(quests)].task = "PLAY_ON_DESKTOP" -> "play"
                [] quests[Len(quests)].task = "STREAM_ON_DESKTOP" -> "stream"
                [] OTHER -> "activity"
    /\ qlog' = Append(qlog, <<"take", quests[Len(quests)].id>>)
    /\ UNCHANGED <<isApp, stores, api, now, sent, botVars, ctl, subs>>

\* "while (quests.length > 0)" with the list empty
AllProcessed ==
    /\ qpc = "loop"
    /\ quests = << >>
    /\ qpc' = "done"
    /\ UNCHANGED <<quests, isApp, q, stores, api, now, sent, qlog, botVars, ctl, subs>>

\* levels of Math.random() in the POST body, in ms
RandomMs == {0, 500, 999}

\* how late a timer fires, in ms
Lateness == {0, 400}

\* the video loop from its head to the next await, and the code after it
VideoHead ==
    /\ qpc = "video"
    /\ IF ~q.completed /\ q.secondsDone < q.quest.target
       THEN LET maxAllowed == ((now - q.quest.enrolledAt) \div 1000) + maxFuture
                diff == maxAllowed - q.secondsDone
                timestamp == q.secondsDone + speed
            IN IF diff >= speed
               THEN /\ \E r \in RandomMs :
                         api' = apiWithRetry("video-progress",
                                             Min(1000 * q.quest.target, 1000 * timestamp + r))
                    /\ q' = [q EXCEPT !.touched = TRUE]
                    /\ qlog' = qlog \o FirstTouch
                    /\ qpc' = "api"
               ELSE /\ qpc' = "video_sleep"
                    /\ UNCHANGED <<api, q, qlog>>
       ELSE IF ~q.completed
            THEN /\ api' = apiWithRetry("video-final", 1000 * q.quest.target)
                 /\ q' = [q EXCEPT !.touched = TRUE]
                 /\ qlog' = qlog \o FirstTouch
                 /\ qpc' = "api"
            ELSE /\ EndQuest("completed", FALSE, << >>)
                 /\ UNCHANGED <<api, q>>
    /\ UNCHANGED <<quests, isApp, stores, now, sent, botVars, ctl, subs>>

\* setTimeout(r, interval * 1000) fires
VideoWake ==
    /\ qpc = "video_sleep"
    /\ \E late \in Lateness :
         /\ now + 1000 * interval + late <= MaxTime
         /\ now' = now + 1000 * interval + late
    /\ qpc' = "video"
    /\ UNCHANGED <<quests, isApp, q, stores, api, sent, qlog, botVars, ctl, subs>>

\* FluxDispatcher.subscribe("QUESTS_SEND_HEARTBEAT_SUCCESS", fn), the last
\* statement before the wait: the handler is subscribed when the wait begins
Subscribed(next) == IF next \in {"play_wait", "stream_wait"} THEN subs \cup {q.quest.id} ELSE subs

\* the PLAY_ON_DESKTOP branch up to its first await
PlayStart ==
    /\ qpc = "play"
    /\ IF ~isApp
       THEN /\ EndQuest("skipped", FALSE, << >>)
            /\ UNCHANGED <<api, q>>
       ELSE /\ api' = apiWithRetry("applications", 0)
            /\ q' = [q EXCEPT !.touched = TRUE]
            /\ qlog' = qlog \o FirstTouch
            /\ qpc' = "api"
    /\ UNCHANGED <<quests, isApp, stores, now, sent, botVars, ctl, subs>>

\* the STREAM_ON_DESKTOP branch up to its await: the patch, and the finally
\* block at once when FluxDispatcher.subscribe throws
StreamStart ==
    /\ qpc = "stream"
    /\ IF ~isApp
       THEN /\ EndQuest("skipped", FALSE, << >>)
            /\ UNCHANGED <<q, stores>>
       ELSE LET saved == [q EXCEPT !.realFunc = stores.getStreamerActiveStreamMetadata,
                                   !.touched = TRUE]
            IN /\ q' = saved
               /\ \E threw \in BOOLEAN :
                    IF threw
                    THEN /\ stores' = StreamFinally(StreamPatch(stores, q.quest.id), saved)
                         /\ EndQuest("error", TRUE, FirstTouch)
                    ELSE /\ stores' = StreamPatch(stores, q.quest.id)
                         /\ qlog' = qlog \o FirstTouch
                         /\ qpc' = "stream_wait"
    /\ subs' = Subscribed(qpc')
    /\ UNCHANGED <<quests, isApp, api, now, sent, botVars, ctl>>

\* the PLAY_ACTIVITY branch up to its first await
ActivityStart ==
    /\ qpc = "activity"
    /\ \E hasChannel \in BOOLEAN :
         IF hasChannel
         THEN /\ api' = apiWithRetry("heartbeat", 0)
              /\ q' = [q EXCEPT !.touched = TRUE, !.beats = <<"heartbeat">>]
              /\ qlog' = qlog \o FirstTouch
              /\ qpc' = "api"
         ELSE /\ EndQuest("skipped", FALSE, << >>)
              /\ UNCHANGED <<api, q>>
    /\ UNCHANGED <<quests, isApp, stores, now, sent, botVars, ctl, subs>>

\* setTimeout(r, 20 * 1000) fires: the next heartbeat
ActivityWake ==
    /\ qpc = "activity_sleep"
    /\ \E late \in Lateness :
         /\ now + 20000 + late <= MaxTime
         /\ now' = now + 20000 + late
    /\ api' = apiWithRetry("heartbeat", 0)
    /\ q' = [q EXCEPT !.beats = Append(@, "heartbeat")]
    /\ qpc' = "api"
    /\ UNCHANGED <<quests, isApp, stores, sent, qlog, botVars, ctl, subs>>

\* a PLAY_ACTIVITY loop that sleeps before it looks at the progress
AfterHeartbeatSleepsFirst(returned) ==
    /\ \E reached \in BOOLEAN :
         /\ api' = returned
         /\ q' = [q EXCEPT !.beats = @ \o << IF reached THEN "reached" ELSE "short", "sleep" >>]
         /\ qpc' = "activity_sleep"
    /\ UNCHANGED <<stores, qlog>>

\* the PLAY_ACTIVITY loop after a heartbeat returned: progress >= secondsNeeded
\* sends the terminal heartbeat, anything less starts the 20 s sleep
AfterHeartbeat(returned) ==
    /\ \E reached \in BOOLEAN :
         IF reached
         THEN /\ api' = apiWithRetry("terminal", 0)
              /\ q' = [q EXCEPT !.beats = @ \o <<"reached", "terminal">>]
              /\ qpc' = "api"
         ELSE /\ api' = returned
              /\ q' = [q EXCEPT !.beats = @ \o <<"short", "sleep">>]
              /\ qpc' = "activity_sleep"
    /\ UNCHANGED <<stores, qlog>>

\* a loop that claims the whole step whatever is left to the target
secondsDoneUncapped(done, secondsNeeded) == done + speed

\* secondsDone = Math.min(secondsNeeded, timestamp), timestamp = secondsDone + speed
secondsDoneAfterPost(done, secondsNeeded) == Min(secondsNeeded, done + speed)

\* the caller of apiWithRetry after the call returned
ResumeAfterApi(returned) ==
    CASE api.site = "video-progress" ->
            /\ \E completedAt \in BOOLEAN :
                 q' = [q EXCEPT !.completed = completedAt,
                                !.secondsDone = secondsDoneAfterPost(q.secondsDone, q.quest.target),
                                !.posts = @ + 1]
            /\ api' = returned
            /\ qpc' = IF secondsDoneAfterPost(q.secondsDone, q.quest.target) >= q.quest.target
                      THEN "video" ELSE "video_sleep"
            /\ UNCHANGED <<stores, qlog>>
      [] api.site = "applications" ->
            /\ api' = returned
            /\ \E wellFormed \in BOOLEAN, threw \in BOOLEAN :
                 LET saved == [q EXCEPT !.realGetRunningGames = stores.getRunningGames,
                                        !.realGetGameForPID = stores.getGameForPID]
                 IN IF ~wellFormed
                    THEN /\ EndQuest("error", FALSE, << >>)
                         /\ UNCHANGED <<q, stores>>
                    ELSE IF threw
                    THEN /\ q' = saved
                         /\ stores' = PlayFinally(PlayPatch(stores, q.quest.id), saved)
                         /\ EndQuest("error", TRUE, << >>)
                    ELSE /\ q' = saved
                         /\ stores' = PlayPatch(stores, q.quest.id)
                         /\ qpc' = "play_wait"
                         /\ UNCHANGED qlog
      [] api.site = "heartbeat" -> AfterHeartbeat(returned)
      [] OTHER ->
            /\ api' = returned
            /\ EndQuest("completed", FALSE, << >>)
            /\ UNCHANGED <<q, stores>>

\* an apiWithRetry whose catch never throws: it starts the backoff timer
\* after the last attempt as well
ApiCallNeverThrows ==
    /\ qpc = "api"
    /\ api.state = "call"
    /\ sent' = IF api.site \in {"video-progress", "video-final"}
               THEN [site |-> api.site, timestamp |-> api.body, at |-> now,
                     enrolledAt |-> q.quest.enrolledAt]
               ELSE sent
    /\ \E ok \in BOOLEAN :
         IF ok
         THEN ResumeAfterApi([api EXCEPT !.state = "returned", !.calls = @ + 1,
                                         !.outcome = [kind |-> "result", attempt |-> api.attempt]])
         ELSE /\ api' = [api EXCEPT !.state = "backoff", !.calls = @ + 1,
                                    !.waits = Append(@, backoff(api.attempt))]
              /\ UNCHANGED <<q, stores, qpc, qlog>>
    /\ subs' = Subscribed(qpc')
    /\ UNCHANGED <<quests, isApp, now, botVars, ctl>>

\* one pass of the loop of apiWithRetry: await api[method](options), then
\* return its result, throw its error after the last attempt, or start the
\* backoff timer
ApiCall ==
    /\ qpc = "api"
    /\ api.state = "call"
    /\ sent' = IF api.site \in {"video-progress", "video-final"}
               THEN [site |-> api.site, timestamp |-> api.body, at |-> now,
                     enrolledAt |-> q.quest.enrolledAt]
               ELSE sent
    /\ \E ok \in BOOLEAN :
         IF ok
         THEN ResumeAfterApi([api EXCEPT !.state = "returned", !.calls = @ + 1,
                                         !.outcome = [kind |-> "result", attempt |-> api.attempt]])
         ELSE IF api.attempt = maxRetries
         THEN /\ api' = [api EXCEPT !.state = "threw", !.calls = @ + 1,
                                    !.outcome = [kind |-> "error", attempt |-> api.attempt]]
              /\ EndQuest("error", FALSE, << >>)
              /\ UNCHANGED <<q, stores>>
         ELSE /\ api' = [api EXCEPT !.state = "backoff", !.calls = @ + 1,
                                    !.waits = Append(@, backoff(api.attempt))]
              /\ UNCHANGED <<q, stores, qpc, qlog>>
    /\ subs' = Subscribed(qpc')
    /\ UNCHANGED <<quests, isApp, now, botVars, ctl>>

\* the for loop of apiWithRetry ends without a return: the caller gets
\* undefined, which the callers that read the response cannot use
ReturnUndefined ==
    LET returned == [api EXCEPT !.state = "returned",
                                !.outcome = [kind |-> "undefined", attempt |-> api.attempt]]
    IN IF api.site \in {"video-final", "terminal"}
       THEN ResumeAfterApi(returned)
       ELSE /\ api' = returned
            /\ EndQuest("error", FALSE, << >>)
            /\ UNCHANGED <<q, stores>>

\* the backoff timer fires: the next attempt
ApiRetry ==
    /\ qpc = "api"
    /\ api.state = "backoff"
    /\ \E late \in Lateness :
         /\ now + backoff(api.attempt) + late <= MaxTime
         /\ now' = now + backoff(api.attempt) + late
    /\ IF api.attempt + 1 <= maxRetries
       THEN /\ api' = [api EXCEPT !.state = "call", !.attempt = @ + 1]
            /\ UNCHANGED <<qpc, q, stores, qlog>>
       ELSE ReturnUndefined
    /\ subs' = Subscribed(qpc')
    /\ UNCHANGED <<quests, isApp, sent, botVars, ctl>>

\* QUESTS_SEND_HEARTBEAT_SUCCESS with progress < secondsNeeded while the
\* script waits: the handler logs the progress and stays subscribed
HeartbeatShort ==
    /\ qpc \in {"play_wait", "stream_wait"}
    /\ q.heard < MaxEvents
    /\ q' = [q EXCEPT !.heard = @ + 1]
    /\ UNCHANGED <<quests, isApp, qpc, stores, api, now, sent, qlog, botVars, ctl, subs>>

\* a handler that resolves the wait and stays subscribed
HeartbeatSuccessStaysSubscribed ==
    /\ qpc \in {"play_wait", "stream_wait"}
    /\ stores' = IF qpc = "play_wait" THEN PlayFinally(stores, q) ELSE StreamFinally(stores, q)
    /\ \E threw \in BOOLEAN :
         IF threw /\ qpc = "play_wait"
         THEN EndQuest("error", TRUE, << >>)
         ELSE EndQuest("completed", TRUE, << >>)
    /\ UNCHANGED <<quests, isApp, q, api, now, sent, botVars, ctl, subs>>

\* QUESTS_SEND_HEARTBEAT_SUCCESS with progress >= secondsNeeded while the
\* script waits: unsubscribe, resolve, then the finally block
HeartbeatSuccess ==
    /\ qpc \in {"play_wait", "stream_wait"}
    /\ subs' = subs \ {q.quest.id}
    /\ stores' = IF qpc = "play_wait" THEN PlayFinally(stores, q) ELSE StreamFinally(stores, q)
    /\ \E threw \in BOOLEAN :
         IF threw /\ qpc = "play_wait"
         THEN EndQuest("error", TRUE, << >>)
         ELSE EndQuest("completed", TRUE, << >>)
    /\ UNCHANGED <<quests, isApp, q, api, now, sent, botVars, ctl>>

NoIter == [kind |-> "none"]

IdleFrame(totalWords) ==
    [ chars |-> << >>, i |-> 0, lastTypedChar |-> NULL, holdingPrevKey |-> FALSE,
      wordIndex |-> 0, isLastWord |-> FALSE, totalWords |-> totalWords, injected |-> 0,
      overlaps |-> 0, spacings0 |-> 0, session |-> 1, typed |-> 0 ]

SessionIdle ==
    /\ pc = "idle"
    /\ f = IdleFrame(0)
    /\ dom = [value |-> <<" ">>, held |-> {}]
    /\ out = << >>
    /\ iter = NoIter
    /\ stopRequested = FALSE
    /\ nerrors = 0
    /\ TARGET_WPM = 120

\* the controller as the script leaves it when loaded: "let enabled = false",
\* "let running = false", no timer set, no session; testActive is
\* isTestActive(), keysAfterStop counts the key events emitted after F6
\* raised stopRequested
ControlOff ==
    [ enabled |-> FALSE, running |-> FALSE, testActive |-> FALSE, timers |-> 0,
      sessions |-> << >>, keysAfterStop |-> 0 ]

\* no session started, and the rest of the page at rest
TypeIdle ==
    /\ SessionIdle
    /\ QuestsIdle
    /\ ctl = ControlOff

\* ------------------------------------------------------------------------
\*  Inputs of the engine specification
\* ------------------------------------------------------------------------
\* values F7 accepts (parseInt(input) >= 1)
TargetWpms == {1, 110, 1000, 20000}

EngineChars == {"t", "T", "g", "h", "1", "a", " "}

EngineWords == { <<"t","h","e">>, <<"t","h","e","i","r">> }

EngineDraws ==
    { DrawOf(0, -3000, -8000, 0), DrawOf(500, 0, 0, 1000), DrawOf(999, 3000, 8000, 12000) }

NoCall == [op |-> "none"]

\* the key relations that hold between the previous character and ch
RelationsHeld(e, ch) ==
    { t \in {"same_key", "same_finger_bigram", "same_finger", "cross_hand", "same_hand"} :
        CASE t = "same_key" -> isSameKey(e, ch)
          [] t = "same_finger_bigram" -> isSameFingerBigram(e, ch)
          [] t = "same_finger" -> isSameFinger(e, ch)
          [] t = "cross_hand" -> isCrossHand(e, ch)
          [] OTHER -> isSameHand(e, ch) }

\* what a computeDelay call looked like from outside
DelayCall(e, ch, d, r) ==
    [ op |-> "delay", ch |-> ch, prevChar |-> e.prevChar,
      applied |-> [n \in DOMAIN RelationAdjustments(e, ch, d.L) |->
                      RelationAdjustments(e, ch, d.L)[n].tag],
      held |-> RelationsHeld(e, ch),
      value |-> r.value ]

HoldCall(e, ch, d, r) ==
    [ op |-> "hold", ch |-> ch, value |-> r.value ]

EngineInit ==
    /\ profile \in { HumanProfile(w, L) : w \in TargetWpms, L \in {0, 999} }
    /\ engine \in { NewEngine(countTotalWords) : countTotalWords \in {2, 100} }
    /\ last = NoCall
    /\ ncalls = 0
    /\ TypeIdle

EngComputeDelay ==
    /\ ncalls < MaxCalls
    /\ \E ch \in EngineChars, d \in EngineDraws :
         LET r == computeDelay(engine, profile, ch, d)
         IN /\ engine' = r.e
            /\ last' = DelayCall(engine, ch, d, r)
    /\ ncalls' = ncalls + 1
    /\ UNCHANGED <<profile, typeVars>>

EngComputeHold ==
    /\ ncalls < MaxCalls
    /\ \E ch \in EngineChars, d \in EngineDraws :
         LET r == computeHold(engine, profile, ch, d)
         IN /\ engine' = r.e
            /\ last' = HoldCall(engine, ch, d, r)
    /\ ncalls' = ncalls + 1
    /\ UNCHANGED <<profile, typeVars>>

EngWordBoundary ==
    /\ ncalls < MaxCalls
    /\ engine' = wordBoundary(engine)
    /\ last' = [op |-> "wordBoundary"]
    /\ ncalls' = ncalls + 1
    /\ UNCHANGED <<profile, typeVars>>

EngSetWordContext ==
    /\ ncalls < MaxCalls
    /\ \E w \in EngineWords : engine' = setWordContext(engine, w)
    /\ last' = [op |-> "setWordContext"]
    /\ ncalls' = ncalls + 1
    /\ UNCHANGED <<profile, typeVars>>

EngineNext ==
    \/ EngComputeDelay
    \/ EngComputeHold
    \/ EngWordBoundary
    \/ EngSetWordContext

SpecEngine == EngineInit /\ [][EngineNext]_vars

\* ------------------------------------------------------------------------
\*  The error-engine specification: direct calls of ErrorEngine's methods
\* ------------------------------------------------------------------------
\* words MonkeyType can show ("constructor" is in its code word lists)
ErrorWords ==
    { <<"t","h","e">>, <<"T","h","e">>, <<"t","h","e","i","r">>, <<"t","o">>,
      <<"c","o","n","s","t","r","u","c","t","o","r">> }

\* levels of the two Math.random() calls of getErrorType
TypoLevels == {0, 5, 30, 500}
WeightLevels == {0, 200, 450, 451, 480, 550, 700, 850, 950, 999}

ErrorInit ==
    /\ profile \in { HumanProfile(w, 500) : w \in {60, 110, 120, 200} }
    /\ engine = NewEngine(100)
    /\ last = NoCall
    /\ ncalls = 0
    /\ TypeIdle

\* errorEngine.getErrorType(ch, charIndex, word)
ErrGetErrorType ==
    /\ ncalls < MaxCalls
    /\ \E word \in ErrorWords, Lc \in TypoLevels, Lw \in WeightLevels :
         \E charIndex \in 0..(Len(word) - 1) :
            last' = [ op |-> "getErrorType", word |-> word, charIndex |-> charIndex,
                      Lw |-> Lw,
                      type |-> getErrorType(profile, charIndex, word, Lc, Lw) ]
    /\ ncalls' = ncalls + 1
    /\ UNCHANGED <<profile, engine, typeVars>>

\* the first statement of the common_typo branch of typeWordAdvanced, taken
\* after getErrorType returned "common_typo" at i = 0
ErrPickTypo ==
    /\ last.op = "getErrorType"
    /\ last.type = "common_typo"
    /\ last.charIndex = 0
    /\ \E L \in {0, 500, 999} :
         last' = [ op |-> "typoWord", word |-> last.word,
                   typoWord |-> commonTypoLookup(last.word, L) ]
    /\ UNCHANGED <<profile, engine, ncalls, typeVars>>

ErrorNext ==
    \/ ErrGetErrorType
    \/ ErrPickTypo

SpecErrors == ErrorInit /\ [][ErrorNext]_vars

\* ------------------------------------------------------------------------
\*  The mapper specification: targetCovForConsistency, pass by pass
\* ------------------------------------------------------------------------
\* targets in millionths of a percent: every 2.5 % from 2.5 to 97.5, targets
\* next to and at the ends of the range of kogasa, and targets outside it
MapperTargets ==
    { k * 2500000 : k \in 1..39 }
    \cup { 1, 50, 10000, FP - 10000, FP - 1 }
    \cup { 0, FP, FP + FP \div 2, -(FP \div 10) }

MapperInit ==
    /\ TypeIdle
    /\ profile = HumanProfile(TARGET_WPM, 500)
    /\ engine = NewEngine(100)
    /\ last = NoCall
    /\ ncalls = 0

\* targetCovForConsistency(target): let lo = 0, hi = 5
MapCall ==
    /\ last.op # "bisect"
    /\ \E target \in MapperTargets :
         last' = [op |-> "bisect", target |-> target, lo |-> 0, hi |-> 5 * FP, i |-> 0]
    /\ UNCHANGED <<profile, engine, ncalls, typeVars>>

\* one pass of "for (let i = 0; i < 100; i++)"
MapStep ==
    /\ last.op = "bisect"
    /\ last.i < BISECTION_STEPS
    /\ last' = [last EXCEPT !.lo = BisectStep(last.lo, last.hi, last.target)[1],
                            !.hi = BisectStep(last.lo, last.hi, last.target)[2],
                            !.i = @ + 1]
    /\ UNCHANGED <<profile, engine, ncalls, typeVars>>

\* return (lo + hi) / 2
MapReturn ==
    /\ last.op = "bisect"
    /\ ~(last.i < BISECTION_STEPS)
    /\ last' = [op |-> "mapped", target |-> last.target,
                cov |-> (last.lo + last.hi) \div 2, steps |-> last.i]
    /\ UNCHANGED <<profile, engine, ncalls, typeVars>>

MapperNext ==
    \/ MapCall
    \/ MapStep
    \/ MapReturn

SpecMapper == MapperInit /\ [][MapperNext]_vars

\* ------------------------------------------------------------------------
\*  The profile specification: new HumanProfile(targetWpm), again and again
\* ------------------------------------------------------------------------
\* target speeds F7 accepts, around the thresholds of the constructor
ProfileWpms == {1, 40, 79, 80, 99, 100, 110, 119, 120, 150, 159, 160, 220, 300}

\* levels of the constructor's Math.random() calls
ProfileLevels == {0, 500, 999}

\* the profiles of these speeds and levels
ProfileOf == [w \in ProfileWpms, L \in ProfileLevels |-> HumanProfile(w, L)]

ProfileInit ==
    /\ TypeIdle
    /\ profile \in { ProfileOf[w, L] : w \in ProfileWpms, L \in ProfileLevels }
    /\ engine = NewEngine(100)
    /\ last = NoCall
    /\ ncalls = 0

\* the next session's "new HumanProfile(TARGET_WPM)"; last keeps the profile
\* of the session before
PrfNewProfile ==
    /\ ncalls < MaxCalls
    /\ \E w \in ProfileWpms, L \in ProfileLevels : profile' = ProfileOf[w, L]
    /\ last' = [op |-> "newProfile", prev |-> profile]
    /\ ncalls' = ncalls + 1
    /\ UNCHANGED <<engine, typeVars>>

ProfileNext == PrfNewProfile

SpecProfile == ProfileInit /\ [][ProfileNext]_vars

\* ------------------------------------------------------------------------
\*  The quest specification: discord.js from the moment it is pasted
\* ------------------------------------------------------------------------
\* the script pasted into the console: the uncompleted quests found
QuestLists ==
    { << >> } \cup { << a >> : a \in QuestPool }
    \cup { two \in { << a, b >> : a \in QuestPool, b \in QuestPool } : two[1] # two[2] }

QuestsInit ==
    /\ SessionIdle
    /\ profile = HumanProfile(120, 500)
    /\ engine = NewEngine(100)
    /\ last = NoCall
    /\ ncalls = 0
    /\ quests \in QuestLists
    /\ isApp \in BOOLEAN
    /\ qpc = IF quests = << >> THEN "none" ELSE "loop"
    /\ q = Taken(NoQuest)
    /\ stores = RealStores
    /\ api = NoApi
    /\ now = 0
    /\ sent = NoSent
    /\ qlog = << >>
    /\ subs = {}
    /\ ctl = ControlOff

QuestsNext ==
    \/ TakeQuest
    \/ AllProcessed
    \/ VideoHead
    \/ VideoWake
    \/ PlayStart
    \/ StreamStart
    \/ ActivityStart
    \/ ActivityWake
    \/ ApiCall
    \/ ApiRetry
    \/ HeartbeatShort
    \/ HeartbeatSuccess

SpecQuests == QuestsInit /\ [][QuestsNext]_vars

\* the video quests an account can hold, one of them with its progress at
\* the target and not yet marked completed
VideoPool ==
    { quest \in QuestPool : quest.task \in VideoTasks }
        \cup { Quest(7, "WATCH_VIDEO_ON_MOBILE", 15, 15, -2000) }

\* quests as processQuests gets it: one or two video quests
VideoLists ==
    { <<a>> : a \in VideoPool }
        \cup { l \in { <<a, b>> : a \in VideoPool, b \in VideoPool } : l[1] # l[2] }

\* processQuests called with video quests only
VideoInit ==
    /\ SessionIdle
    /\ profile = HumanProfile(120, 500)
    /\ engine = NewEngine(100)
    /\ last = NoCall
    /\ ncalls = 0
    /\ quests \in VideoLists
    /\ isApp \in BOOLEAN
    /\ qpc = "loop"
    /\ q = Taken(NoQuest)
    /\ stores = RealStores
    /\ api = NoApi
    /\ now = 0
    /\ sent = NoSent
    /\ qlog = << >>
    /\ subs = {}
    /\ ctl = ControlOff

VideoNext ==
    \/ TakeQuest
    \/ AllProcessed
    \/ VideoHead
    \/ VideoWake
    \/ ApiCall
    \/ ApiRetry

SpecVideo == VideoInit /\ [][VideoNext]_vars

\* the event loop runs every continuation and every timer that is due
SpecVideoFair == SpecVideo /\ WF_vars(VideoNext)

\* ------------------------------------------------------------------------
\*  The control specification: F6, the observer, its timers and the sessions
\* ------------------------------------------------------------------------
\* the most key events typeWordAdvanced emits between two tests of
\* stopRequested: a corrected double_tap or confusion (two key presses and a
\* backspace) in the last iteration, then the space after the word
MaxUncheckedKeys == 4

\* a session that has passed the guard and awaits sleep(200)
NewSession == [pc |-> "focus", unchecked |-> 0]

\* getInputElement(): #wordsInput is there whenever the test is shown
InputFound(c) == c.testActive

\* a runTypingSession that leaves "running = true" until after its first await
runTypingSessionLateFlag(c, stop) ==
    IF c.running THEN [c |-> c, stop |-> stop]
    ELSE IF ~InputFound(c) THEN [c |-> [c EXCEPT !.running = FALSE], stop |-> FALSE]
    ELSE [ c |-> [c EXCEPT !.sessions = Append(@, NewSession), !.keysAfterStop = 0],
           stop |-> FALSE ]

\* runTypingSession() up to its first await: the controller and
\* stopRequested after it
runTypingSession(c, stop) ==
    IF c.running THEN [c |-> c, stop |-> stop]
    ELSE IF ~InputFound(c) THEN [c |-> [c EXCEPT !.running = FALSE], stop |-> FALSE]
    ELSE [ c |-> [c EXCEPT !.running = TRUE, !.sessions = Append(@, NewSession),
                           !.keysAfterStop = 0],
           stop |-> FALSE ]

\* "if (enabled && isTestActive() && !running)"
MayStart(c) == c.enabled /\ c.testActive /\ ~c.running

\* the MutationObserver callback: sets the 300 ms timer
observer(c) == IF MayStart(c) THEN [c EXCEPT !.timers = @ + 1] ELSE c

\* the controls of the other actions stay as they are
ControlFrame == UNCHANGED <<profile, engine, last, ncalls, pc, f, dom, out, iter, nerrors, TARGET_WPM, questVars>>

\* an F6 that clears stopRequested when it switches the bot on
ToggleKeyClearsStop ==
    /\ LET c == [ctl EXCEPT !.enabled = ~@]
       IN IF c.enabled
          THEN IF c.testActive /\ ~c.running
               THEN /\ ctl' = runTypingSession(c, stopRequested).c
                    /\ stopRequested' = runTypingSession(c, stopRequested).stop
               ELSE /\ ctl' = c
                    /\ stopRequested' = FALSE
          ELSE /\ ctl' = c
               /\ stopRequested' = TRUE
    /\ ControlFrame

\* the keydown handler for F6 (not a repeat)
ToggleKey ==
    /\ LET c == [ctl EXCEPT !.enabled = ~@]
       IN IF c.enabled
          THEN IF c.testActive /\ ~c.running
               THEN /\ ctl' = runTypingSession(c, stopRequested).c
                    /\ stopRequested' = runTypingSession(c, stopRequested).stop
               ELSE /\ ctl' = c
                    /\ UNCHANGED stopRequested
          ELSE /\ ctl' = c
               /\ stopRequested' = TRUE
    /\ ControlFrame

\* MonkeyType shows the test: #typingTest loses "hidden", the observer runs
TestShows ==
    /\ ~ctl.testActive
    /\ ctl.timers < MaxTimers
    /\ ctl' = observer([ctl EXCEPT !.testActive = TRUE])
    /\ UNCHANGED stopRequested
    /\ ControlFrame

\* MonkeyType hides the test: the observer runs and finds no test active
TestHides ==
    /\ ctl.testActive
    /\ ctl' = observer([ctl EXCEPT !.testActive = FALSE])
    /\ UNCHANGED stopRequested
    /\ ControlFrame

\* another change of the class of #typingTest while the bot may start
ClassChanges ==
    /\ MayStart(ctl)
    /\ ctl.timers < MaxTimers
    /\ ctl' = observer(ctl)
    /\ UNCHANGED stopRequested
    /\ ControlFrame

\* a 300 ms timer of the observer fires
TimerFires ==
    /\ ctl.timers > 0
    /\ LET c == [ctl EXCEPT !.timers = @ - 1]
       IN IF MayStart(c)
          THEN /\ ctl' = runTypingSession(c, stopRequested).c
               /\ stopRequested' = runTypingSession(c, stopRequested).stop
          ELSE /\ ctl' = c
               /\ UNCHANGED stopRequested
    /\ ControlFrame

\* the sessions without session n
Without(sessions, n) == SubSeq(sessions, 1, n - 1) \o SubSeq(sessions, n + 1, Len(sessions))

\* key events counted once stopRequested is raised
KeysCounted(c, k) == [c EXCEPT !.keysAfterStop = IF stopRequested THEN Min(@ + k, 2 * MaxUncheckedKeys) ELSE @]

\* a sleep of session n ends at "while (!stopRequested)": the session ends
\* (releaseAllHeld, running = false), waits 50 ms for words, goes to type the
\* space after a complete word, or calls typeWordAdvanced
SessionLoop(n) ==
    /\ n \in DOMAIN ctl.sessions
    /\ ctl.sessions[n].pc \in {"focus", "pause"}
    /\ IF stopRequested \/ ~ctl.testActive
       THEN ctl' = [ctl EXCEPT !.sessions = Without(@, n), !.running = FALSE]
       ELSE \E next \in {"pause", "space", "keys"} :
               ctl' = [ctl EXCEPT !.sessions[n] = [pc |-> next, unchecked |-> 0]]
    /\ UNCHANGED stopRequested
    /\ ControlFrame

\* the space after a complete word: sleep(spaceDelay) ends, typeChar, sleep(30)
SessionSpace(n) ==
    /\ n \in DOMAIN ctl.sessions
    /\ ctl.sessions[n].pc = "space"
    /\ ctl' = [KeysCounted(ctl, 1) EXCEPT !.sessions[n].pc = "pause"]
    /\ UNCHANGED stopRequested
    /\ ControlFrame

\* typeWordAdvanced emits a key event; what follows is another key event, a
\* test of stopRequested, or the return to runTypingSession and its sleep(10)
SessionKey(n) ==
    /\ n \in DOMAIN ctl.sessions
    /\ ctl.sessions[n].pc = "keys"
    /\ ctl.sessions[n].unchecked < MaxUncheckedKeys
    /\ \E next \in {"keys", "check", "pause"} :
         /\ next = "keys" => ctl.sessions[n].unchecked + 1 < MaxUncheckedKeys
         /\ ctl' = [KeysCounted(ctl, 1) EXCEPT !.sessions[n] = [pc |-> next, unchecked |-> ctl.sessions[n].unchecked + 1]]
    /\ UNCHANGED stopRequested
    /\ ControlFrame

\* "if (stopRequested) return" in typeWordAdvanced
SessionCheck(n) ==
    /\ n \in DOMAIN ctl.sessions
    /\ ctl.sessions[n].pc = "check"
    /\ ctl' = [ctl EXCEPT !.sessions[n] = [pc |-> IF stopRequested THEN "pause" ELSE "keys", unchecked |-> 0]]
    /\ UNCHANGED stopRequested
    /\ ControlFrame

\* a step of a session: a timer of one of its awaits fires
SessionStep ==
    \E n \in 1..2 : SessionLoop(n) \/ SessionSpace(n) \/ SessionKey(n) \/ SessionCheck(n)

\* the script loaded on the MonkeyType page, the test shown or not
ControlInit ==
    /\ SessionIdle
    /\ QuestsIdle
    /\ profile = HumanProfile(120, 500)
    /\ engine = NewEngine(100)
    /\ last = NoCall
    /\ ncalls = 0
    /\ \E shown \in BOOLEAN : ctl = [ControlOff EXCEPT !.testActive = shown]

ControlNext ==
    \/ ToggleKey
    \/ TestShows
    \/ TestHides
    \/ ClassChanges
    \/ TimerFires
    \/ \E n \in 1..2 : SessionLoop(n)
    \/ \E n \in 1..2 : SessionSpace(n)
    \/ \E n \in 1..2 : SessionKey(n)
    \/ \E n \in 1..2 : SessionCheck(n)

SpecControl == ControlInit /\ [][ControlNext]_vars

\* the timers of a session's awaits fire in the end
SpecControlFair == SpecControl /\ WF_vars(SessionStep)

\* ------------------------------------------------------------------------
\*  The typing specification: runTypingSession calling typeWordAdvanced
\* ------------------------------------------------------------------------
\* the words the DOM offers, each with words.length (the words still visible)
\* at the time it becomes the active word
StartInputs ==
    { << <<"t","h","e">>, 2 >>, << <<"t","h","e","i","r">>, 2 >>, << <<"T","o">>, 1 >> }

\* countTotalWords() at session start
SessionTotalWords == 2

\* what the user answers to the prompt of F7 (0: cancelled or not a number >= 1)
WpmInputs == {0, 120, 200}

\* new HumanProfile(TARGET_WPM) for the values TARGET_WPM can take
SessionProfile == [w \in { val \in WpmInputs : val >= 1 } |-> HumanProfile(w, 500)]

BoolLevels == {0, 999}

\* Math.random() levels at the head of an iteration: shouldMakeError, and the
\* two draws of getErrorType
ErrLevels == IF nerrors < MaxErrors THEN {0, 999} ELSE {999}

\* shouldOverlap() levels
OverlapLevels == IF f.overlaps < MaxOverlaps THEN {0, 999} ELSE {999}

\* the levels drawn in an iteration of each kind
PlanLevels(kind) ==
    CASE kind = "common_typo" ->
            { Levels(c, 999, 0, o, k, 999, 999) :
                c \in BoolLevels, o \in BoolLevels, k \in BoolLevels }
      [] kind = "transpose" ->
            { Levels(c, n, m, o, 0, 999, 999) :
                c \in BoolLevels, n \in BoolLevels, m \in {0, 500, 999}, o \in BoolLevels }
      [] kind = "adjacent" ->
            { Levels(c, n, m, o, 0, 999, 999) :
                c \in BoolLevels, n \in BoolLevels, m \in {0, 999}, o \in BoolLevels }
      [] kind = "normal" ->
            { Levels(999, 999, 0, 999, 0, a, b) : a \in OverlapLevels, b \in OverlapLevels }
      [] OTHER ->
            { Levels(c, 999, 0, 999, 0, 999, 999) : c \in BoolLevels }

TypeInit ==
    /\ TARGET_WPM = 120
    /\ profile = SessionProfile[TARGET_WPM]
    /\ engine = NewEngine(SessionTotalWords)
    /\ last = NoCall
    /\ ncalls = 0
    /\ pc = "idle"
    /\ f = IdleFrame(SessionTotalWords)
    /\ dom = [value |-> <<" ">>, held |-> {}]
    /\ out = << >>
    /\ iter = NoIter
    /\ stopRequested = FALSE
    /\ nerrors = 0
    /\ QuestsIdle
    /\ ctl = ControlOff

\* runTypingSession: one pass of "while (!stopRequested)" up to the call of
\* typeWordAdvanced, and the first two statements of typeWordAdvanced.
\* A new active word starts with the input holding the leading space only.
StartWord ==
    /\ pc = "idle"
    /\ ~stopRequested
    /\ f.typed < MaxWords
    /\ \E in \in StartInputs :
         /\ engine' = setWordContext(
                        wordBoundary([engine EXCEPT
                           !.totalWords = Max(f.totalWords, f.wordIndex + in[2])]), in[1])
         /\ f' = [f EXCEPT !.chars = in[1], !.i = 0, !.lastTypedChar = NULL,
                           !.holdingPrevKey = FALSE, !.isLastWord = (in[2] <= 1),
                           !.injected = 0, !.typed = @ + 1,
                           !.spacings0 = Len(engine.keySpacings)]
    /\ pc' = "loop"
    /\ dom' = [dom EXCEPT !.value = <<" ">>]
    /\ out' = << >>
    /\ iter' = NoIter
    /\ UNCHANGED <<profile, last, ncalls, stopRequested, nerrors, TARGET_WPM, pageVars>>

\* the error decision at the head of an iteration
Decide(Le, Lc, Lw) ==
    IF shouldMakeError(profile, CharAt(f.chars, f.i), f.i, f.chars, f.wordIndex, engine.prevChar, Le)
    THEN getErrorType(profile, f.i, f.chars, Lc, Lw)
    ELSE "none"

\* the decisions the draws of this iteration can produce
Decisions ==
    { Decide(Le, Lc, Lw) : Le \in ErrLevels, Lc \in {0, 500}, Lw \in {200, 550, 700, 850, 950} }

InLoop == pc = "loop" /\ f.i < Len(f.chars) /\ ~stopRequested

\* the steps at which the iteration can find stopRequested raised (0: nowhere)
AbortPoints(steps) == {0} \cup { n \in DOMAIN steps : steps[n].check }

\* the shouldOverlap() calls of the iteration that returned true
OverlapsDrawn(o, R) ==
    IF o.kind # "normal" THEN 0
    ELSE (IF shouldOverlap(profile, R.ov1) THEN 1 ELSE 0)
         + (IF o.steps[Len(o.steps)].overlapPrev = "none" /\ shouldOverlap(profile, R.ov2)
            THEN 1 ELSE 0)

\* the record the dispatchers work on, at the start of a run of steps
Dispatching ==
    [e |-> engine, value |-> dom.value, held |-> dom.held, out |-> out, events |-> << >>]

\* the state after the iteration o: x is the outcome of the steps done, a the
\* step at which the iteration returned (0: it ran to its end)
Iterated(o, fired, R, a, done, x, injected) ==
    /\ engine' = x.e
    /\ dom' = [value |-> x.value, held |-> x.held]
    /\ out' = x.out
    /\ iter' = [ kind |-> o.kind, fired |-> fired, aborted |-> (a # 0),
                 i0 |-> f.i, i1 |-> IF a = 0 THEN o.i1 ELSE f.i,
                 out0 |-> Len(out), value0 |-> dom.value,
                 injected0 |-> f.injected,
                 spacings0 |-> Len(engine.keySpacings),
                 durations0 |-> Len(engine.keyDurations),
                 reads |-> {f.i} \cup StepReads(done),
                 corrected |-> o.corrected, extraTyped |-> o.extraTyped,
                 overBackspace |-> o.overBackspace,
                 events |-> x.events ]
    /\ IF a = 0
       THEN /\ f' = [f EXCEPT !.i = o.i1, !.holdingPrevKey = o.holdingPrevKey,
                              !.lastTypedChar = o.lastTypedChar,
                              !.injected = injected,
                              !.overlaps = @ + OverlapsDrawn(o, R)]
            /\ pc' = "loop"
            /\ UNCHANGED stopRequested
       ELSE /\ f' = [f EXCEPT !.injected = injected]
            /\ pc' = "returned"
            /\ stopRequested' = TRUE
    /\ nerrors' = nerrors + (IF fired = "none" THEN 0 ELSE 1)
    /\ UNCHANGED <<profile, last, ncalls, TARGET_WPM, pageVars>>

IterateUpTo(o, fired, R, a, done) ==
    Iterated(o, fired, R, a, done, ExecSteps(Dispatching, profile, done),
             f.injected + (IF o.kind = "normal" THEN 0 ELSE 1))

\* run the iteration o, decided by the draw fired, to its end or to the check
\* at which F6 has raised stopRequested in the meantime
Iterate(o, fired, R) ==
    \E a \in AbortPoints(o.steps) :
        IterateUpTo(o, fired, R, a, IF a = 0 THEN o.steps ELSE SubSeq(o.steps, 1, a - 1))

IterCommonTypo ==
    /\ InLoop
    /\ "common_typo" \in Decisions
    /\ f.i = 0
    /\ \E R \in PlanLevels("common_typo") : Iterate(CommonTypoPlan(f, profile, R), "common_typo", R)

\* the transpose branch taken without its guard i < chars.length - 1
IterTransposeUnguarded ==
    /\ InLoop
    /\ "transpose" \in Decisions
    /\ \E R \in PlanLevels("transpose") : Iterate(TransposePlan(f, profile, R), "transpose", R)

IterTranspose ==
    /\ InLoop
    /\ "transpose" \in Decisions
    /\ f.i < Len(f.chars) - 1
    /\ \E R \in PlanLevels("transpose") : Iterate(TransposePlan(f, profile, R), "transpose", R)

IterAdjacent ==
    /\ InLoop
    /\ "adjacent" \in Decisions
    /\ \E R \in PlanLevels("adjacent") : Iterate(AdjacentPlan(f, profile, R), "adjacent", R)

IterConfusion ==
    /\ InLoop
    /\ "confusion" \in Decisions
    /\ \E R \in PlanLevels("confusion") : Iterate(ConfusionPlan(f, profile, R), "confusion", R)

IterDoubleTap ==
    /\ InLoop
    /\ "double_tap" \in Decisions
    /\ \E R \in PlanLevels("double_tap") : Iterate(DoubleTapPlan(f, profile, R), "double_tap", R)

\* no error, or an error type none of the branches above takes
IterNormal ==
    /\ InLoop
    /\ \E fired \in Decisions :
         /\ \/ fired \in {"none", "skip"}
            \/ fired = "transpose" /\ ~(f.i < Len(f.chars) - 1)
            \/ fired = "common_typo" /\ f.i # 0
         /\ \E R \in PlanLevels("normal") : Iterate(NormalPlan(f, profile, R), fired, R)

\* F6 switches the bot off while the loop sleeps after an iteration, and
\* "if (stopRequested) return" at the head of the loop finds the flag
StopAtLoopHead ==
    /\ InLoop
    /\ stopRequested' = TRUE
    /\ pc' = "returned"
    /\ UNCHANGED <<profile, engine, last, ncalls, f, dom, out, iter, nerrors, TARGET_WPM, pageVars>>

\* the engine and the input after the steps that end a word
WordFinished(x) ==
    /\ engine' = x.e
    /\ dom' = [value |-> x.value, held |-> x.held]
    /\ out' = x.out

\* an end of word that takes the space through computeDelay like a letter
FinishWordSpaceDelayed ==
    /\ pc = "loop"
    /\ f.i >= Len(f.chars)
    /\ WordFinished(ExecSteps(Dispatching, profile,
                              ReleaseIfHolding(f)
                              \o (IF f.isLastWord THEN << >> ELSE << KeyStep(" ", -1, FALSE) >>)))
    /\ f' = [f EXCEPT !.holdingPrevKey = FALSE, !.wordIndex = @ + 1]
    /\ pc' = "idle"
    /\ \E stop \in BOOLEAN : stopRequested' = (stopRequested \/ stop)
    /\ UNCHANGED <<profile, last, ncalls, iter, nerrors, TARGET_WPM, pageVars>>

\* after the loop: release the held key, type the space unless this is the
\* last word, return to runTypingSession (wordIndex++); F6 may switch the bot
\* off meanwhile
FinishWord ==
    /\ pc = "loop"
    /\ f.i >= Len(f.chars)
    /\ WordFinished(ExecSteps(Dispatching, profile,
                              ReleaseIfHolding(f)
                              \o (IF f.isLastWord THEN << >> ELSE << HoldOnlyKeyStep(" ", -1) >>)))
    /\ f' = [f EXCEPT !.holdingPrevKey = FALSE, !.wordIndex = @ + 1]
    /\ pc' = "idle"
    /\ \E stop \in BOOLEAN : stopRequested' = (stopRequested \/ stop)
    /\ UNCHANGED <<profile, last, ncalls, iter, nerrors, TARGET_WPM, pageVars>>

\* a runTypingSession that ends without releaseAllHeld
EndSessionKeepsHeld ==
    /\ \/ pc = "returned"
       \/ pc = "idle" /\ (stopRequested \/ f.typed >= MaxWords)
    /\ pc' = "ended"
    /\ UNCHANGED <<profile, engine, last, ncalls, f, dom, out, iter, stopRequested, nerrors, TARGET_WPM, pageVars>>

\* runTypingSession after its loop: releaseAllHeld, running = false
EndSession ==
    /\ \/ pc = "returned"
       \/ pc = "idle" /\ (stopRequested \/ f.typed >= MaxWords)
    /\ dom' = [dom EXCEPT !.held = {}]
    /\ pc' = "ended"
    /\ UNCHANGED <<profile, engine, last, ncalls, f, out, iter, stopRequested, nerrors, TARGET_WPM, pageVars>>

\* runTypingSession up to its loop, called when no session is running:
\* stopRequested = false, a fresh profile from the current TARGET_WPM, a
\* fresh engine, wordIndex = 0
StartSession ==
    /\ pc = "ended"
    /\ f.session < MaxSessions
    /\ stopRequested' = FALSE
    /\ profile' = SessionProfile[TARGET_WPM]
    /\ engine' = NewEngine(SessionTotalWords)
    /\ f' = [IdleFrame(SessionTotalWords) EXCEPT !.session = f.session + 1,
                                                 !.typed = f.typed,
                                                 !.overlaps = f.overlaps]
    /\ pc' = "idle"
    /\ out' = << >>
    /\ iter' = NoIter
    /\ UNCHANGED <<last, ncalls, dom, nerrors, TARGET_WPM, pageVars>>

\* a handler of F7 that also rebuilds the profile of the session
SetWpmRebuildsProfile ==
    /\ \E val \in WpmInputs :
         /\ TARGET_WPM' = IF val >= 1 THEN val ELSE TARGET_WPM
         /\ profile' = SessionProfile[TARGET_WPM']
    /\ UNCHANGED <<engine, last, ncalls, pc, f, dom, out, iter, stopRequested, nerrors, pageVars>>

\* the keydown handler for WPM_KEY (F7), at any time
SetWpm ==
    /\ \E val \in WpmInputs : TARGET_WPM' = IF val >= 1 THEN val ELSE TARGET_WPM
    /\ UNCHANGED <<profile, engine, last, ncalls, pc, f, dom, out, iter, stopRequested, nerrors, pageVars>>

TypeNext ==
    \/ StartSession
    \/ SetWpm
    \/ StartWord
    \/ IterCommonTypo
    \/ IterTranspose
    \/ IterAdjacent
    \/ IterConfusion
    \/ IterDoubleTap
    \/ IterNormal
    \/ StopAtLoopHead
    \/ FinishWord
    \/ EndSession

SpecType == TypeInit /\ [][TypeNext]_vars

\* one call of typeWordAdvanced in a session at its first word
WordNext ==
    \/ StartWord
    \/ IterCommonTypo
    \/ IterTranspose
    \/ IterAdjacent
    \/ IterConfusion
    \/ IterDoubleTap
    \/ IterNormal
    \/ StopAtLoopHead
    \/ FinishWord

SpecWord == TypeInit /\ [][WordNext]_vars

\* a step of typeWordAdvanced: an iteration, a return or the end of the word.
\* Such a step is possible exactly while pc = "loop", and it changes the
\* frame or leaves the loop.
LoopStep == pc = "loop" /\ (f' # f \/ pc' # pc)

\* the timers of the awaits of typeWordAdvanced fire in the end: weak
\* fairness of LoopStep, with ENABLED <<LoopStep>>_vars written as pc = "loop"
SpecWordFair == SpecWord /\ ([]<>(pc # "loop") \/ []<><<LoopStep>>_vars)

\* ------------------------------------------------------------------------
\*  Timing claims
\* ------------------------------------------------------------------------
\* C1: every value returned by computeDelay lies in [MIN_SLEEP, 2 x baseDelay]
DelayWithinBounds ==
    last.op = "delay" =>
        /\ MIN_SLEEP <= last.value
        /\ last.value <= 2 * profile.baseDelay

\* C2: every value returned by computeHold lies in [holdMin, holdMax]
HoldWithinBounds ==
    last.op = "hold" =>
        /\ profile.holdMin <= last.value
        /\ last.value <= profile.holdMax

\* C3: a computeDelay call with a previous character applies exactly one of
\* the five key-relation adjustments, never none and never two
ExactlyOneRelationAdjustment ==
    (last.op = "delay" /\ last.prevChar # NULL) =>
        /\ Len(last.applied) = 1
        /\ last.applied[1] \in
             {"same_key", "same_finger_bigram", "same_finger", "cross_hand", "same_hand"}

\* a call with a previous character in which a hand or finger adjustment was applied
OneRelationApplied ==
    /\ last.op = "delay"
    /\ last.prevChar # NULL
    /\ last.applied = <<"same_hand">>

RelationRank(t) ==
    CASE t = "same_key" -> 1
      [] t = "same_finger_bigram" -> 2
      [] t = "same_finger" -> 3
      [] t = "cross_hand" -> 4
      [] OTHER -> 5

\* C4: of the key relations that hold for (previous, current), computeDelay
\* applies the one of highest priority; a repeated key gets the same-key
\* penalty and a pair of SAME_FINGER_PAIRS never the generic same-finger one
HighestPriorityRelationApplied ==
    (last.op = "delay" /\ last.prevChar # NULL) =>
        /\ last.applied # << >>
        /\ \A n \in DOMAIN last.applied :
              /\ last.applied[n] \in last.held
              /\ \A t \in last.held : RelationRank(last.applied[n]) <= RelationRank(t)
        /\ toLowerCase(last.prevChar) = toLowerCase(last.ch) =>
              last.applied[1] = "same_key"
        /\ <<toLowerCase(last.prevChar), toLowerCase(last.ch)>> \in SAME_FINGER_PAIRS =>
              \A n \in DOMAIN last.applied : last.applied[n] # "same_finger"

\* a pair of SAME_FINGER_PAIRS, for which three relations hold at once
SeveralRelationsHold ==
    /\ last.op = "delay"
    /\ last.prevChar = "t"
    /\ last.ch = "g"
    /\ last.held = {"same_finger_bigram", "same_finger", "same_hand"}
    /\ last.applied = <<"same_finger_bigram">>

\* ------------------------------------------------------------------------
\*  Typing-loop claims
\* ------------------------------------------------------------------------
\* what the last iteration emitted, while the loop has not gone on
Emitted == SubSeq(out, iter.out0 + 1, Len(out))

Backspaces(s) == Cardinality({ n \in DOMAIN s : s[n] = "BS" })

\* the text of the current word in the input, after its leading space
NetText == Tail(dom.value)

DelayCallsInWord == Len(engine.keySpacings) - f.spacings0

\* C5: while no error has been injected into the word, the i characters typed
\* so far are the first i characters of the word, no backspace was emitted and
\* computeDelay was called i times; the word ends with n presses and n calls
\* (followed by the separating space, which takes no computeDelay call)
NoErrorWordTypedVerbatim ==
    /\ (pc = "loop" /\ f.injected = 0) =>
          /\ out = SubSeq(f.chars, 1, f.i)
          /\ DelayCallsInWord = f.i
    /\ (pc = "idle" /\ f.chars # << >> /\ f.injected = 0) =>
          /\ out = f.chars \o (IF f.isLastWord THEN << >> ELSE << " " >>)
          /\ DelayCallsInWord = Len(f.chars)

\* "the" typed to its end without an error
WordTypedWithoutError ==
    /\ pc = "idle"
    /\ f.injected = 0
    /\ f.chars = <<"t", "h", "e">>
    /\ out = <<"t", "h", "e", " ">>
    /\ DelayCallsInWord = 3

\* C6: a corrected transpose at index i with no delayed-detection character
\* and no over-backspace emits chars[i+1], chars[i], two backspaces, chars[i],
\* chars[i+1], and the loop goes on at index i+2
CorrectedTransposeSequence ==
    (pc = "loop" /\ iter.kind = "transpose" /\ iter.corrected
       /\ iter.extraTyped = 0 /\ ~iter.overBackspace) =>
        /\ iter.i0 < Len(f.chars) - 1
        /\ Emitted = << f.chars[iter.i0 + 2], f.chars[iter.i0 + 1], "BS", "BS",
                        f.chars[iter.i0 + 1], f.chars[iter.i0 + 2] >>
        /\ f.i = iter.i0 + 2

\* "the" with a corrected transpose at position 0: h, t, delete, delete, t, h, e
TheTransposedAndCorrected ==
    /\ pc = "loop"
    /\ f.chars = <<"t", "h", "e">>
    /\ f.injected = 1
    /\ out = <<"h", "t", "BS", "BS", "t", "h", "e">>

\* the number of characters a transpose (2) or adjacent (1) error begins with
ErrorWidth == IF iter.kind = "transpose" THEN 2 ELSE 1

CorrectedWithoutOverBackspace ==
    /\ pc = "loop"
    /\ iter.kind \in {"transpose", "adjacent"}
    /\ iter.corrected
    /\ ~iter.overBackspace

\* the backspaces equal the characters typed since the error began, and the
\* loop goes on at index i + width + k
BackspacesMatchTyped ==
    LET n == ErrorWidth + iter.extraTyped
    IN /\ Backspaces(Emitted) = n
       /\ Len(Emitted) >= 2 * n
       /\ \A m \in 1..n : Emitted[m] # "BS" /\ Emitted[n + m] = "BS"
       /\ f.i = iter.i0 + n

\* C7 as stated: for a corrected transpose or adjacent error with k
\* delayed-detection characters and no over-backspace, the backspaces equal
\* the characters typed since the error began, and after the retype the net
\* text of the word is the intended characters up to the resume index
CorrectionRestoresIntendedPrefix ==
    CorrectedWithoutOverBackspace =>
        /\ BackspacesMatchTyped
        /\ NetText = SubSeq(f.chars, 1, f.i)

\* C7 amended: the backspaces equal the characters typed since the error
\* began, and after the retype the net text of the word is its net text from
\* before the error followed by the intended characters from index i up to
\* the resume index; it is the intended prefix whenever the text before the
\* error was
CorrectionRestoresTextSinceError ==
    CorrectedWithoutOverBackspace =>
        /\ BackspacesMatchTyped
        /\ dom.value = iter.value0 \o SubSeq(f.chars, iter.i0 + 1, f.i)
        /\ Tail(iter.value0) = SubSeq(f.chars, 1, iter.i0) =>
              NetText = SubSeq(f.chars, 1, f.i)

\* a transpose at the start of "their", noticed three characters later
DelayedCorrectionRetyped ==
    /\ CorrectedWithoutOverBackspace
    /\ iter.kind = "transpose"
    /\ iter.extraTyped = 3
    /\ f.chars = <<"t", "h", "e", "i", "r">>
    /\ Backspaces(Emitted) = 5
    /\ NetText = <<"t", "h", "e", "i", "r">>

\* C8: every index at which an iteration of typeWordAdvanced reads a
\* character of the word lies in [0, length - 1]
ReadsWithinWord ==
    iter.kind # "none" => iter.reads \subseteq 0..(Len(f.chars) - 1)

\* a transpose at the start of "the" whose delayed-detection count is cut to
\* the one character left, and whose retype reads up to the last index
DelayedDetectionReachesWordEnd ==
    /\ pc = "loop"
    /\ iter.kind = "transpose"
    /\ iter.i0 = 0
    /\ iter.extraTyped = 1
    /\ f.chars = <<"t", "h", "e">>
    /\ iter.reads = {0, 1, 2}

\* the error drawn by the last iteration cannot be enacted
ErrorNotEnactable ==
    /\ pc = "loop"
    /\ iter.kind # "none"
    /\ \/ iter.fired = "skip"
       \/ iter.fired = "transpose" /\ iter.i0 = Len(f.chars) - 1

\* C9: when the error drawn is skip, or transpose at the last character, the
\* iteration emits one normal key press of the intended character (with its
\* one computeDelay call), no backspace, and advances the index by one
UnenactableErrorTypesNormally ==
    ErrorNotEnactable =>
        /\ iter.kind = "normal"
        /\ Emitted = << f.chars[iter.i0 + 1] >>
        /\ Len(engine.keySpacings) = iter.spacings0 + 1
        /\ f.i = iter.i0 + 1
        /\ f.injected = iter.injected0

\* transpose drawn at the last character of "the"
TransposeDrawnAtLastChar ==
    /\ ErrorNotEnactable
    /\ iter.fired = "transpose"
    /\ f.chars = <<"t", "h", "e">>
    /\ iter.i0 = 2
    /\ f.i = 3

\* C10: a confusion error emits one wrong character, then one backspace and
\* the intended character when corrected and nothing more when not; it types
\* no delayed-detection character, no second backspace, and advances the
\* index by one
ConfusionSequence ==
    (pc = "loop" /\ iter.kind = "confusion") =>
        LET ch == f.chars[iter.i0 + 1]
        IN /\ Emitted[1] \notin {"BS", ch}
           /\ Emitted = IF iter.corrected THEN << Emitted[1], "BS", ch >> ELSE << Emitted[1] >>
           /\ Backspaces(Emitted) <= 1
           /\ iter.extraTyped = 0
           /\ f.i = iter.i0 + 1

\* "h" of "the" confused with its partner, corrected at once
ConfusionCorrected ==
    /\ pc = "loop"
    /\ iter.kind = "confusion"
    /\ iter.corrected
    /\ f.chars = <<"t", "h", "e">>
    /\ iter.i0 = 1
    /\ Len(Emitted) = 3
    /\ Emitted[2] = "BS"
    /\ Emitted[3] = "h"

\* C11: a double_tap error emits the intended character twice, then exactly
\* one backspace when corrected (never an over-backspace) and none when not,
\* so that the corrected text holds the character once; the index advances
\* by one
DoubleTapSequence ==
    (pc = "loop" /\ iter.kind = "double_tap") =>
        LET ch == f.chars[iter.i0 + 1]
        IN /\ ~iter.aborted
           /\ Emitted = IF iter.corrected THEN << ch, ch, "BS" >> ELSE << ch, ch >>
           /\ Backspaces(Emitted) = IF iter.corrected THEN 1 ELSE 0
           /\ ~iter.overBackspace
           /\ dom.value = iter.value0 \o (IF iter.corrected THEN << ch >> ELSE << ch, ch >>)
           /\ f.i = iter.i0 + 1

\* "h" of "the" tapped twice and the second tap deleted
DoubleTapCorrected ==
    /\ pc = "loop"
    /\ iter.kind = "double_tap"
    /\ iter.corrected
    /\ f.chars = <<"t", "h", "e">>
    /\ iter.i0 = 1
    /\ Emitted = << "h", "h", "BS" >>

\* the common_typo branch as C12 describes it, in the typing loop: a listed
\* misspelling typed in full; when corrected, one backspace per character of
\* it (one more on over-backspace) and the whole word retyped; the word is
\* finished either way
CommonTypoSequence ==
    (pc = "loop" /\ iter.kind = "common_typo") =>
        /\ iter.i0 = 0
        /\ f.i = Len(f.chars)
        /\ \E n \in DOMAIN COMMON_TYPOS(lowerWord(f.chars)) :
              LET typoWord == COMMON_TYPOS(lowerWord(f.chars))[n]
                  bsCount == Len(typoWord) + (IF iter.overBackspace THEN 1 ELSE 0)
              IN Emitted = IF iter.corrected
                           THEN typoWord \o [b \in 1..bsCount |-> "BS"] \o f.chars
                           ELSE typoWord

\* "the" mistyped as a listed misspelling, deleted and retyped
CommonTypoCorrected ==
    /\ pc = "loop"
    /\ iter.kind = "common_typo"
    /\ iter.corrected
    /\ f.chars = <<"t", "h", "e">>
    /\ Backspaces(Emitted) >= 2
    /\ NetText = <<"t", "h", "e">>

\* C12: common_typo is selected only at character index 0 of a word that has
\* an entry in COMMON_TYPOS, and the misspelling the branch then types is one
\* of the misspellings listed for that word
CommonTypoOnlyForListedWords ==
    /\ (last.op = "getErrorType" /\ last.type = "common_typo") =>
          /\ last.charIndex = 0
          /\ COMMON_TYPOS(lowerWord(last.word)) # << >>
    /\ last.op = "typoWord" =>
          \E n \in DOMAIN COMMON_TYPOS(lowerWord(last.word)) :
              last.typoWord = COMMON_TYPOS(lowerWord(last.word))[n]

\* C13: no field of the session's profile is written after its construction:
\* every step of a session, and F7 changing TARGET_WPM while the session
\* runs, leaves the profile as it is; the profile changes only when the next
\* session starts, and is then the profile of the TARGET_WPM of that moment
ProfileFixedForSession ==
    [][ /\ (profile' # profile) =>
              (pc = "ended" /\ pc' = "idle" /\ profile' = SessionProfile[TARGET_WPM])
        /\ (TARGET_WPM' # TARGET_WPM) => (profile' = profile)
        /\ (pc = "ended" /\ pc' = "idle") => profile'.targetWpm = TARGET_WPM ]_vars

\* the second session was started at 200 WPM and keeps that profile after F7
\* has set the speed back to 120
SecondSessionKeepsItsSpeed ==
    /\ f.session = 2
    /\ pc = "idle"
    /\ profile = SessionProfile[200]
    /\ TARGET_WPM = 120

\* C14: the engine's state is written only by the engine's own methods and
\* never by the session driver: charInWord, which wordBoundary sets to 0 and
\* computeDelay increments, counts the computeDelay calls made since the last
\* wordBoundary, and totalWords is still the value the constructor stored
EngineStateWrittenOnlyByEngine ==
    /\ engine.charInWord = DelayCallsInWord
    /\ engine.totalWords = NewEngine(SessionTotalWords).totalWords

\* the engine state that a word boundary leaves alone
CarriedOver(e) ==
    << e.prevChar, e.prevFinger, e.prevRow, e.totalChars, e.ar1Residual, e.lastDelay >>

MapperInvertsKogasa ==
    (last.op = "mapped" /\ kogasa(5 * FP) < last.target /\ last.target < kogasa(0)) =>
        /\ kogasa(last.cov) - last.target < 100
        /\ last.target - kogasa(last.cov) < 100
        /\ (last.target = 70 * (FP \div 100)) =>
              /\ kogasa(last.cov) >= 6999 * (FP \div 10000)
              /\ kogasa(last.cov) <= 7001 * (FP \div 10000)

\* the mapper has returned for the target 70: a cov a little above 0.3
MapperReturnedForSeventy ==
    /\ last.op = "mapped"
    /\ last.target = 70 * (FP \div 100)
    /\ last.cov > 30 * (FP \div 100)
    /\ last.cov < 31 * (FP \div 100)

\* C17: targetCovForConsistency returns after exactly 100 passes for every
\* target, in and out of range; 0 <= lo <= hi <= 5 holds at every pass; the
\* value returned is in [0, 5]; it is the lower bound 0 for a target above
\* kogasa(0) and the upper bound 5 (to the last unit) for a target below
\* kogasa(5)
MapperStaysInRange ==
    /\ last.op = "bisect" =>
          /\ 0 <= last.lo /\ last.lo <= last.hi /\ last.hi <= 5 * FP
          /\ last.i <= BISECTION_STEPS
    /\ last.op = "mapped" =>
          /\ last.steps = 100
          /\ 0 <= last.cov /\ last.cov <= 5 * FP
          /\ (last.target > kogasa(0)) => last.cov = 0
          /\ (last.target < kogasa(5 * FP)) => last.cov >= 5 * FP - 1

\* the mapper has returned the upper bound for a target below the range
MapperSaturatedAtUpperBound ==
    /\ last.op = "mapped"
    /\ last.target < 0
    /\ last.steps = 100
    /\ last.cov >= 5 * FP - 1

\* ------------------------------------------------------------------------
\*  Profile claims
\* ------------------------------------------------------------------------
\* C18: targetConsistency is drawn from the one band of the profile's speed
\* (below 80 WPM: 50-65, 80 to below 120: 60-75, 120 to below 160: 68-82,
\* from 160: 72-85), so that the value passed to targetCovForConsistency is
\* within [50, 85] and strictly inside the range of kogasa
ConsistencyTargetInBand ==
    /\ profile.targetWpm < 80 =>
          (50000 <= profile.targetConsistency /\ profile.targetConsistency <= 65000)
    /\ (80 <= profile.targetWpm /\ profile.targetWpm < 120) =>
          (60000 <= profile.targetConsistency /\ profile.targetConsistency <= 75000)
    /\ (120 <= profile.targetWpm /\ profile.targetWpm < 160) =>
          (68000 <= profile.targetConsistency /\ profile.targetConsistency <= 82000)
    /\ profile.targetWpm >= 160 =>
          (72000 <= profile.targetConsistency /\ profile.targetConsistency <= 85000)
    /\ 50000 <= profile.targetConsistency /\ profile.targetConsistency <= 85000
    /\ kogasa(5 * FP) < profile.targetConsistency * 1000
    /\ profile.targetConsistency * 1000 < kogasa(0)
    /\ profile.targetCov = targetCovForConsistency(profile.targetConsistency * 1000)

\* a profile of 160 WPM whose consistency was drawn at the top of its band
EliteBandUpperEnd ==
    /\ last.op = "newProfile"
    /\ profile.targetWpm = 160
    /\ profile.targetConsistency > 84000
    /\ profile.targetCov > 0

\* the amount by which the correction lengthens the raw interval
Inflation(p) == p.baseDelay - rawIki(p.targetWpm)

\* C19 as stated: the correction factor of the faster of two profiles is not
\* greater than that of the slower, and no factor exceeds 1.25
CorrectionFallsWithSpeed ==
    /\ correctionFactor(profile.targetWpm) <= 1250
    /\ (last.op = "newProfile" /\ last.prev.targetWpm < profile.targetWpm) =>
          correctionFactor(profile.targetWpm) <= correctionFactor(last.prev.targetWpm)

\* C19, amended: the correction factor of the faster of two profiles is not
\* smaller than that of the slower; it rises from 1.04 to 1.24 at twice the
\* reference speed and never exceeds 1.25; baseDelay is the raw interval
\* times this factor, and what the faster profile has less of is the time
\* the correction adds
CorrectionRisesToCeiling ==
    /\ correctionFactor(profile.targetWpm) >= 1040
    /\ correctionFactor(profile.targetWpm) <= 1240
    /\ profile.targetWpm >= 2 * REFERENCE_WPM => correctionFactor(profile.targetWpm) = 1240
    /\ profile.baseDelay = Mul(rawIki(profile.targetWpm), correctionFactor(profile.targetWpm))
    /\ (last.op = "newProfile" /\ last.prev.targetWpm < profile.targetWpm) =>
          /\ correctionFactor(profile.targetWpm) >= correctionFactor(last.prev.targetWpm)
          /\ Inflation(profile) <= Inflation(last.prev)

\* a profile of 220 WPM built after one of 40 WPM: the larger factor, the
\* smaller added time
FasterProfileLargerFactor ==
    /\ last.op = "newProfile"
    /\ last.prev.targetWpm = 40
    /\ profile.targetWpm = 220
    /\ correctionFactor(40) < correctionFactor(220)
    /\ Inflation(profile) < Inflation(last.prev)

\* C20 as stated: from the reference speed on typoChance falls as the target
\* speed rises, and at no speed does it rise with the target speed
TypoChanceFallsPastReference ==
    (last.op = "newProfile" /\ last.prev.targetWpm < profile.targetWpm) =>
        /\ last.prev.targetWpm >= REFERENCE_WPM => profile.typoChance < last.prev.typoChance
        /\ ~(profile.typoChance > last.prev.typoChance)

\* C20, amended: typoChance does not fall as the target speed rises: it
\* rises up to 100 WPM and is 0.018 from there on; what falls above 100 WPM
\* is the rate of whole-word typos, down to its floor of 0.01
TypoChanceRisesToPlateau ==
    /\ profile.targetWpm >= 100 => profile.typoChance = 18000
    /\ profile.targetWpm < 100 => profile.typoChance < 18000
    /\ (last.op = "newProfile" /\ last.prev.targetWpm < profile.targetWpm) =>
          /\ profile.typoChance >= last.prev.typoChance
          /\ profile.targetWpm <= 100 => profile.typoChance > last.prev.typoChance
          /\ commonTypoRate(profile.targetWpm) <= commonTypoRate(last.prev.targetWpm)
          /\ (last.prev.targetWpm >= 100 /\ profile.targetWpm <= 150) =>
                commonTypoRate(profile.targetWpm) < commonTypoRate(last.prev.targetWpm)

\* a profile of 300 WPM built after one of 120 WPM: the same typoChance
SameTypoChanceAboveReference ==
    /\ last.op = "newProfile"
    /\ last.prev.targetWpm = 120
    /\ profile.targetWpm = 300
    /\ profile.typoChance = last.prev.typoChance

\* ------------------------------------------------------------------------
\*  Error-type selection
\* ------------------------------------------------------------------------
\* the sum of the profile's weights, in thousandths
WeightTotal == SumTo(profile.errorWeights, Len(profile.errorWeights))

\* the place of a type among the keys of the weight map
TypeIndex(type) == CHOOSE k \in DOMAIN ErrorTypes : ErrorTypes[k] = type

\* the weighted pick for a draw at level L of 1000
WeightedPick(L) == getErrorType(profile, 1, <<"t","o">>, 0, L)

\* the draw r = L / 1000 * total falls in the cumulative-weight interval of
\* the type returned, and the type is one of the five keys
InCumulativeInterval ==
    (last.op = "getErrorType" /\ last.type # "common_typo") =>
        /\ \E k \in DOMAIN ErrorTypes : ErrorTypes[k] = last.type
        /\ WeightTotal * last.Lw <= 1000 * SumTo(profile.errorWeights, TypeIndex(last.type))
        /\ TypeIndex(last.type) > 1 =>
              WeightTotal * last.Lw > 1000 * SumTo(profile.errorWeights, TypeIndex(last.type) - 1)

\* C21 as stated: the total of the weights is not 1, and the type returned
\* is the one in whose cumulative-weight interval the draw falls
ErrorTypeByWeightOfNonUnitTotal ==
    /\ (last.op = "getErrorType" /\ last.type # "common_typo") => WeightTotal # 1000
    /\ InCumulativeInterval

\* C21, amended: the total of the weights lies between 0.955 and 1.09 and is
\* exactly 1 at the reference speed; whatever the total, the type returned
\* is the one in whose cumulative-weight interval the draw r in [0, total)
\* falls, always one of the five keys, and of 1000 equally spaced draws the
\* number that give a type is 1000 * weight / total to within one
ErrorTypeByNormalizedWeight ==
    /\ 955 <= WeightTotal /\ WeightTotal <= 1090
    /\ profile.targetWpm = REFERENCE_WPM => WeightTotal = 1000
    /\ InCumulativeInterval
    /\ (last.op = "getErrorType" /\ last.type # "common_typo") =>
          LET n == Cardinality({ L \in 0..999 : WeightedPick(L) = last.type })
              w == profile.errorWeights[TypeIndex(last.type)]
          IN /\ (n - 1) * WeightTotal <= 1000 * w
             /\ 1000 * w <= (n + 1) * WeightTotal

\* "skip" returned for a draw of 0.95 by a profile whose weights sum to 1.09
SkipDrawnOverUnitTotal ==
    /\ last.op = "getErrorType"
    /\ last.type = "skip"
    /\ last.Lw = 950
    /\ WeightTotal > 1000
    /\ getErrorTypeUnscaledDraw(profile, 1, last.word, 0, 950) = "double_tap"

\* ------------------------------------------------------------------------
\*  The engine's records
\* ------------------------------------------------------------------------
\* the character key presses among the entries of out
KeyPresses(seq) == Cardinality({ n \in DOMAIN seq : seq[n] # "BS" })

\* C23: keySpacings and keyDurations have one entry per character key press
\* emitted: the two lists have the same length, and while a word is typed
\* keySpacings has grown by the number of characters emitted for the word
RecordedOncePerKeyPress ==
    /\ Len(engine.keySpacings) = Len(engine.keyDurations)
    /\ pc = "loop" => Len(engine.keySpacings) - f.spacings0 = KeyPresses(out)

\* ------------------------------------------------------------------------
\*  Quest claims
\* ------------------------------------------------------------------------
\* the calls and waits of one apiWithRetry, at each point of its loop
RetryCounts ==
    /\ api.calls <= 4
    /\ api.waits = SubSeq(<<1000, 2000, 4000>>, 1, Len(api.waits))
    /\ api.state = "call" => (api.calls = api.attempt /\ Len(api.waits) = api.calls)
    /\ api.state = "backoff" => (api.calls = api.attempt + 1 /\ Len(api.waits) = api.calls)
    /\ api.state = "returned" => Len(api.waits) = api.calls - 1
    /\ api.state = "threw" => (api.calls = 4 /\ api.waits = <<1000, 2000, 4000>>)

\* a call is made and a wait is started only by an apiWithRetry that has not
\* returned or thrown, and the next call comes no sooner than the wait
RetrySteps ==
    /\ api'.calls > api.calls => (api.state = "call" /\ api'.calls = api.calls + 1)
    /\ Len(api'.waits) > Len(api.waits) => (api.state = "call" /\ api'.state = "backoff")
    /\ (api.state = "backoff" /\ api'.state = "call") =>
          now' - now >= api.waits[Len(api.waits)]

\* C24: apiWithRetry makes at most 4 calls, waits 1000, 2000 and 4000 ms
\* before the 2nd, 3rd and 4th call, and makes no call and starts no wait
\* after the first call that succeeds
RetryWithBackoff == []RetryCounts /\ [][RetrySteps]_vars

\* an apiWithRetry that returned from its fourth call
FourthCallSucceeded ==
    /\ api.state = "returned"
    /\ api.calls = 4
    /\ api.waits = <<1000, 2000, 4000>>
    /\ now >= 7000

\* C25: when the handling of a quest has ended, by completion or by a thrown
\* error, the three store functions are the original ones again before the
\* next quest is started; they are patched only while the script waits for
\* the heartbeat of the quest in hand
StoresRestoredBetweenQuests ==
    /\ qpc \in {"loop", "done", "video", "play", "stream", "activity"} => stores = RealStores
    /\ stores # RealStores =>
          /\ qpc \in {"play_wait", "stream_wait"}
          /\ \A fn \in DOMAIN stores : stores[fn] \in {RealFn, FakeFn(q.quest.id)}

\* a PLAY_ON_DESKTOP quest ended by an error thrown after the patch, the
\* stores original again and another quest still to be taken
RestoredAfterThrow ==
    /\ qpc = "loop"
    /\ quests # << >>
    /\ qlog # << >>
    /\ qlog[Len(qlog)] = <<"end", 3, "error", TRUE>>
    /\ stores = RealStores
    /\ q.realGetRunningGames = RealFn

\* the ids of the quests in the list, and of those taken so far
ListedIds == { quests[n].id : n \in DOMAIN quests }
TakenIds == { qlog[n][2] : n \in { m \in DOMAIN qlog : qlog[m][1] = "take" } }

\* the log is one segment per quest: "take", the first API call or patch
\* if there was one, "end"; no quest is taken twice or while still listed
OneQuestAtATime ==
    /\ \A n \in DOMAIN qlog :
          CASE qlog[n][1] = "take" ->
                  /\ n > 1 => qlog[n - 1][1] = "end"
                  /\ \A m \in 1..(n - 1) : qlog[m][2] # qlog[n][2]
            [] qlog[n][1] = "first" -> n > 1 /\ qlog[n - 1] = <<"take", qlog[n][2]>>
            [] OTHER -> n > 1 /\ qlog[n - 1][1] \in {"take", "first"}
                              /\ qlog[n - 1][2] = qlog[n][2]
    /\ TakenIds \cap ListedIds = {}
    /\ Cardinality(ListedIds) = Len(quests)
    /\ qpc \in {"api", "play_wait", "stream_wait", "video_sleep", "activity_sleep"} =>
          /\ qlog # << >>
          /\ qlog[Len(qlog)][1] \in {"take", "first"}
          /\ qlog[Len(qlog)][2] = q.quest.id
    /\ (api.state \in {"call", "backoff"} \/ stores # RealStores) =>
          qlog[Len(qlog)] = <<"first", q.quest.id>>
    /\ qpc = "done" => (quests = << >> /\ qlog[Len(qlog)][1] = "end")

\* a step takes a quest only from the end of the list and only between two
\* quests, and no quest leaves the list untaken
QuestSteps ==
    /\ TakenIds' \cup ListedIds' = TakenIds \cup ListedIds
    /\ quests' # quests =>
          /\ qpc = "loop"
          /\ quests = Append(quests', q'.quest)
          /\ qlog' = Append(qlog, <<"take", q'.quest.id>>)
    /\ qpc' = "done" => (qpc \in {"loop", "done"} /\ quests = << >>)

\* C26: processQuests handles the quests one at a time: the first API call
\* or patch for a quest comes after the end of the quest taken before, every
\* quest found is taken from the list exactly once, and the loop ends when
\* the list is empty
QuestsOneAtATime == []OneQuestAtATime /\ [][QuestSteps]_vars

\* two quests handled one after the other and the loop ended
BothQuestsProcessed ==
    /\ qpc = "done"
    /\ Cardinality(TakenIds) = 2
    /\ \E n \in DOMAIN qlog : qlog[n][1] = "first" /\ n > 3
    /\ Len(qlog) >= 5

\* C27: every timestamp sent in a video-progress POST is within the
\* server's window when it is sent: timestamp <= floor((now - enrolledAt) /
\* 1000) + maxFuture, in the loop and in the final POST
TimestampWithinFutureWindow ==
    sent.site # "none" =>
        sent.timestamp <= 1000 * (((sent.at - sent.enrolledAt) \div 1000) + maxFuture)

\* ------------------------------------------------------------------------
\*  Control claims
\* ------------------------------------------------------------------------
\* C28: at most one typing session runs at any time: whatever the order of F6
\* presses, observer callbacks and their timers, no runTypingSession passes
\* the running guard while an earlier session has not set running to false
AtMostOneSession ==
    /\ Len(ctl.sessions) <= 1
    /\ ctl.running <=> Len(ctl.sessions) = 1

\* a timer of the observer is still pending while a session runs
TimerPendingWhileRunning ==
    /\ ctl.running
    /\ ctl.timers > 0
    /\ Len(ctl.sessions) = 1

\* C29: once F6 has switched the bot off while a session runs, the session
\* ends (running becomes false) after at most MaxUncheckedKeys further key
\* events, also when F6 switches the bot on again before it has ended
StopEndsSession ==
    /\ [](ctl.keysAfterStop <= MaxUncheckedKeys)
    /\ (ctl.running /\ stopRequested) ~> ~ctl.running

\* the bot is on again while the stopped session is still typing
EnabledAgainWhileStopping ==
    /\ ctl.enabled
    /\ ctl.running
    /\ stopRequested
    /\ ctl.keysAfterStop > 0

\* C30: the system never rests with the bot enabled, the test active and no
\* session running or scheduled
NeverRestsEnabled ==
    ~ ( /\ ctl.enabled
        /\ ctl.testActive
        /\ ~ctl.running
        /\ ctl.sessions = << >>
        /\ ctl.timers = 0 )

\* ------------------------------------------------------------------------
\*  Key event claims
\* ------------------------------------------------------------------------
RECURSIVE EventsAlternate(_, _)
\* the events are dispatched in turn on keys of which those of down are down:
\* every keydown is of a key that is up, every keyup of a key that is down
EventsAlternate(down, events) ==
    IF events = << >> THEN TRUE
    ELSE LET ev == Head(events)
         IN IF ev[1] = "keydown"
            THEN ev[2] \notin down /\ EventsAlternate(down \cup {ev[2]}, Tail(events))
            ELSE ev[2] \in down /\ EventsAlternate(down \ {ev[2]}, Tail(events))

\* C31: for every key code the keydown and keyup events dispatched on the
\* input alternate, starting with keydown: no keyup is dispatched for a key
\* that is not down, and in an overlapped keystroke the keydown of the new
\* key is dispatched while the previous key is still down
KeyEventsAlternate ==
    [][InLoop /\ out' # out => EventsAlternate(dom.held, iter'.events)]_vars

\* C32: when no typing session is running (pc = "ended") heldKeys is empty,
\* however the session ended; and when typeWordAdvanced has returned after
\* its end-of-word steps (pc = "idle") no key of the word is held, so none
\* was held when the space was typed
HeldKeysEmptyAtRest == pc \in {"idle", "ended"} => dom.held = {}

\* a session stopped in mid-word right after an overlapped keystroke, whose
\* key was still down, has ended
StoppedWithKeyDown ==
    /\ pc = "ended"
    /\ f.i < Len(f.chars)
    /\ iter.kind = "normal"
    /\ Len(iter.events) = 2
    /\ iter.events[1][1] = "keydown"
    /\ iter.events[2][1] = "keyup"
    /\ iter.events[1][2] # iter.events[2][2]
    /\ dom.held = {}

\* ------------------------------------------------------------------------
\*  Correction and termination claims
\* ------------------------------------------------------------------------
\* the characters emitted after the last backspace
RetypedAfterBackspaces(s) ==
    Cardinality({ n \in DOMAIN s : s[n] # "BS" /\ \A m \in DOMAIN s : s[m] = "BS" => m < n })

\* C33: in every corrected transpose or adjacent error, with or without
\* over-backspace and at every index, the characters retyped after the
\* backspaces are as many as the backspaces
RetypedEqualsBackspaces ==
    (pc = "loop" /\ iter.kind \in {"transpose", "adjacent"} /\ iter.corrected) =>
        RetypedAfterBackspaces(Emitted) = Backspaces(Emitted)

\* the characters emitted before the first backspace
TypedBeforeBackspaces(s) ==
    Cardinality({ n \in DOMAIN s : s[n] # "BS" /\ \A m \in DOMAIN s : s[m] = "BS" => n < m })

\* the index stays within the word, and the passes of the inner loops of the
\* last iteration (characters typed, backspaces, characters retyped) are each
\* at most the word length plus 4
LoopsBounded ==
    /\ f.i <= Len(f.chars)
    /\ (pc = "loop" /\ iter.kind # "none") =>
          /\ TypedBeforeBackspaces(Emitted) <= Len(f.chars) + 4
          /\ Backspaces(Emitted) <= Len(f.chars) + 4
          /\ RetypedAfterBackspaces(Emitted) <= Len(f.chars) + 4

\* the index goes up by 1, by 2, by 1 + the delayed-detection count, or to
\* the end of the word
AdvancesAsListed ==
    (pc = "loop" /\ iter.kind # "none") =>
        /\ f.i >= iter.i0 + 1
        /\ f.i - iter.i0 \in {1, 2, 1 + iter.extraTyped, Len(f.chars) - iter.i0}

\* the same, a corrected transpose noticed late going up by 2 + the count
AdvancesByErrorWidth ==
    (pc = "loop" /\ iter.kind # "none") =>
        /\ f.i >= iter.i0 + 1
        /\ f.i - iter.i0 \in {1, 2, 1 + iter.extraTyped, 2 + iter.extraTyped,
                              Len(f.chars) - iter.i0}

\* typeWordAdvanced leaves its loop: it returns, or goes on to the space
LoopLeft == (pc = "loop") ~> (pc # "loop")

\* C34 as stated: typeWordAdvanced terminates; each iteration raises the
\* index by 1, by 2, by 1 + the delayed-detection count, or to the end of
\* the word; the index never exceeds the word length; every inner loop makes
\* at most word length + 4 passes
TerminatesAdvancingAsListed == []LoopsBounded /\ []AdvancesAsListed /\ LoopLeft

\* C34 amended: typeWordAdvanced terminates; each iteration raises the index
\* by 1, by 2, by 1 or 2 + the delayed-detection count, or to the end of the
\* word; the index never exceeds the word length; every inner loop makes at
\* most word length + 4 passes
TerminatesAdvancing == []LoopsBounded /\ []AdvancesByErrorWidth /\ LoopLeft

\* a transpose at the start of "their" noticed one character late: the
\* index went from 0 to 3
TransposeNoticedOneLate ==
    /\ pc = "loop"
    /\ iter.kind = "transpose"
    /\ iter.corrected
    /\ iter.extraTyped = 1
    /\ iter.i0 = 0
    /\ f.i = 3
    /\ f.chars = <<"t", "h", "e", "i", "r">>

\* ------------------------------------------------------------------------
\*  Quest claims: errors, heartbeats, handlers, the video loop
\* ------------------------------------------------------------------------
\* C35: when all maxRetries + 1 attempts have failed apiWithRetry throws the
\* error of the last attempt; when an attempt succeeds it returns the result
\* of that attempt; it never returns undefined and never goes on after the
\* last attempt
ThrowsLastErrorOrReturnsResult ==
    /\ api.state = "threw" =>
          /\ api.calls = maxRetries + 1
          /\ api.outcome = [kind |-> "error", attempt |-> maxRetries]
    /\ api.state = "returned" =>
          api.outcome = [kind |-> "result", attempt |-> api.calls - 1]
    /\ api.calls = maxRetries + 1 => api.state \in {"threw", "returned"}

\* the fourth attempt failed and its error went to the caller
ThrewAfterLastAttempt ==
    /\ api.state = "threw"
    /\ api.calls = 4
    /\ api.outcome.attempt = 3

\* the entries of the log that end a quest in the catch block
ErrorEnd(entry) == entry[1] = "end" /\ entry[3] = "error"

\* after an error the loop is at its head or has gone on to the next quest;
\* it has ended only with the list empty and every quest taken ended
CaughtAndGoneOn ==
    /\ \A n \in DOMAIN qlog :
          ErrorEnd(qlog[n]) =>
             IF n = Len(qlog) THEN qpc \in {"loop", "done"} ELSE qlog[n + 1][1] = "take"
    /\ qpc = "done" =>
          /\ quests = << >>
          /\ \A n \in DOMAIN qlog :
                qlog[n][1] = "take" =>
                   \E m \in DOMAIN qlog : m > n /\ qlog[m][1] = "end" /\ qlog[m][2] = qlog[n][2]

\* the step that logs an error puts the loop at its head and leaves the
\* quests still in the list there
ErrorStep ==
    (qlog' # qlog /\ ErrorEnd(qlog'[Len(qlog')])) => (qpc' = "loop" /\ quests' = quests)

TerminalBeats == { n \in DOMAIN q.beats : q.beats[n] = "terminal" }

Waiting == qpc \in {"play_wait", "stream_wait"}

\* the handler of the quest in hand, and no other, is subscribed for as long
\* as the script waits, whatever events fell short of the target; no handler
\* is subscribed at any other time
SubscribedWhileWaiting == subs = IF Waiting THEN {q.quest.id} ELSE {}

\* a handler is unsubscribed in the step in which its wait resolves
UnsubscribedOnResolve ==
    (subs' # subs /\ subs' = {}) => (Waiting /\ qpc' = "loop" /\ qlog'[Len(qlog')][1] = "end")

\* C38: the QUESTS_SEND_HEARTBEAT_SUCCESS handler of a PLAY_ON_DESKTOP or
\* STREAM_ON_DESKTOP wait is unsubscribed in the callback in which the wait
\* resolves and not before, and after any number of quests no handler of a
\* finished quest is subscribed
HandlerUnsubscribedOnCompletion == []SubscribedWhileWaiting /\ [][UnsubscribedOnResolve]_vars

\* two waits, the second resolved after events short of the target, and no
\* handler left
TwoWaitsNoHandlerLeft ==
    /\ qpc = "done"
    /\ subs = {}
    /\ q.heard = MaxEvents
    /\ Cardinality({ n \in DOMAIN qlog : qlog[n][1] = "end" /\ qlog[n][3] = "completed" /\ qlog[n][4] }) = 2

\* ---- the video loop ----
InVideoLoop ==
    \/ qpc \in {"video", "video_sleep"}
    \/ qpc = "api" /\ api.site = "video-progress"

\* Math.ceil((secondsNeeded - secondsDone) / speed) for the progress the
\* quest came with
PostsNeeded(quest) == IF quest.value >= quest.target THEN 0
                      ELSE (quest.target - quest.value + speed - 1) \div speed

\* secondsDone stays between the progress the quest came with and
\* secondsNeeded, and the POSTs of the loop that returned are no more than
\* ceil((secondsNeeded - initial secondsDone) / speed)
VideoProgressBounded ==
    q.quest.task \in VideoTasks =>
        /\ q.quest.value <= q.secondsDone
        /\ q.secondsDone <= q.quest.target
        /\ q.posts <= PostsNeeded(q.quest)
        /\ (q.quest.value >= q.quest.target => ~(qpc = "api" /\ api.site = "video-progress"))

\* secondsDone changes only when a POST of the loop returns, and then by
\* min(speed, secondsNeeded - secondsDone)
VideoPostAdvances ==
    (q.quest.task \in VideoTasks /\ q'.quest = q.quest) =>
        /\ q'.secondsDone >= q.secondsDone
        /\ q'.posts # q.posts <=>
               (qpc = "api" /\ api.site = "video-progress" /\ api'.state = "returned")
        /\ q'.posts # q.posts =>
               q'.secondsDone = q.secondsDone + Min(speed, q.quest.target - q.secondsDone)
        /\ q'.posts = q.posts => q'.secondsDone = q.secondsDone

\* the clock of the model cannot advance by the timer that is pending
ClockAtBound ==
    \/ now + 1000 * interval > MaxTime
    \/ api.state = "backoff" /\ now + backoff(api.attempt) > MaxTime

\* the video loop is left while the clock advances
VideoLoopLeft == InVideoLoop ~> (~InVideoLoop \/ ClockAtBound)

\* C39: in the video loop secondsDone never decreases and never exceeds
\* secondsNeeded, each POST that succeeds advances it by
\* min(7, secondsNeeded - secondsDone), the loop ends after at most
\* ceil((secondsNeeded - initial secondsDone) / 7) such POSTs as long as
\* time advances, and a quest that comes with its progress at the target
\* sends no POST from the loop
VideoLoopAdvancesAndEnds ==
    /\ []VideoProgressBounded
    /\ [][VideoPostAdvances]_vars
    /\ VideoLoopLeft

\* a quest that needed three POSTs and a sleep between them has left the
\* loop, after a quest at its target that sent none
ThreePostsAfterNone ==
    /\ qpc = "loop"
    /\ q.quest.task \in VideoTasks
    /\ q.posts = 3 /\ PostsNeeded(q.quest) = 3
    /\ q.secondsDone = q.quest.target
    /\ now > 0
    /\ \E n \in DOMAIN qlog : qlog[n] = <<"end", 7, "completed", FALSE>>

====
